---- MODULE Spec2Model ----
(***************************************************************************)
(* Decision engine of the richup.io Monopoly bot (integration/).           *)
(*                                                                         *)
(* board_mapping.py  : static board tables and BoardMapper                 *)
(* strategic_ai.py   : PlayerState / GameState / TradeOffer, StrategicAI   *)
(*                                                                         *)
(* Number representation.  The Python code computes qualities, landing     *)
(* probabilities and EPT in binary floating point (IEEE-754 doubles).  The *)
(* tables below keep the decimal literals of the source as integers        *)
(* (hundredths, ten-thousandths); every value the code computes from them  *)
(* is the double the code computes, bit for bit: the section "Python       *)
(* floats" gives the correctly rounded sum, product, quotient and          *)
(* comparison of doubles.  A Python set is iterated in an order the        *)
(* language does not fix; where a float sum depends on it the order is an  *)
(* input of the operator.                                                  *)
(***************************************************************************)
EXTENDS Integers, Sequences, FiniteSets, TLC

VARIABLES ai, snapshot, op, args, ret

vars == <<ai, snapshot, op, args, ret>>

\* Python's None (absent group, absent return value).
None == "None"

(***************************************************************************)
(* board_mapping.py : static tables                                        *)
(***************************************************************************)

\* Quality multipliers, in hundredths.
GROUP_QUALITY ==
  [brown |-> 85, lightBlue |-> 95, pink |-> 95, orange |-> 100, red |-> 105,
   yellow |-> 120, green |-> 130, darkBlue |-> 115, railroad |-> 100,
   utility |-> 90]

\* Landing probabilities, in ten-thousandths.
LANDING_PROBABILITIES ==
  (24 :> 316) @@ (0 :> 312) @@ (21 :> 305) @@ (25 :> 303) @@ (10 :> 620) @@
  (5 :> 289) @@ (15 :> 286) @@ (35 :> 280)

PROPERTY_PRICES ==
  (1 :> 60) @@ (3 :> 60) @@
  (6 :> 100) @@ (8 :> 100) @@ (9 :> 120) @@
  (11 :> 140) @@ (13 :> 140) @@ (14 :> 160) @@
  (16 :> 180) @@ (18 :> 180) @@ (19 :> 200) @@
  (21 :> 220) @@ (23 :> 220) @@ (24 :> 240) @@
  (26 :> 260) @@ (27 :> 260) @@ (29 :> 280) @@
  (31 :> 300) @@ (32 :> 300) @@ (34 :> 320) @@
  (37 :> 350) @@ (39 :> 400) @@
  (5 :> 200) @@ (15 :> 200) @@ (25 :> 200) @@ (35 :> 200) @@
  (12 :> 150) @@ (28 :> 150)

\* rent[position] = <<base, monopoly, 1 house, ..., 4 houses, hotel>>
RENT_TABLE ==
  (1 :> <<2, 4, 10, 30, 90, 160, 250>>) @@
  (3 :> <<4, 8, 20, 60, 180, 320, 450>>) @@
  (6 :> <<6, 12, 30, 90, 270, 400, 550>>) @@
  (8 :> <<6, 12, 30, 90, 270, 400, 550>>) @@
  (9 :> <<8, 16, 40, 100, 300, 450, 600>>) @@
  (11 :> <<10, 20, 50, 150, 450, 625, 750>>) @@
  (13 :> <<10, 20, 50, 150, 450, 625, 750>>) @@
  (14 :> <<12, 24, 60, 180, 500, 700, 900>>) @@
  (16 :> <<14, 28, 70, 200, 550, 750, 950>>) @@
  (18 :> <<14, 28, 70, 200, 550, 750, 950>>) @@
  (19 :> <<16, 32, 80, 220, 600, 800, 1000>>) @@
  (21 :> <<18, 36, 90, 250, 700, 875, 1050>>) @@
  (23 :> <<18, 36, 90, 250, 700, 875, 1050>>) @@
  (24 :> <<20, 40, 100, 300, 750, 925, 1100>>) @@
  (26 :> <<22, 44, 110, 330, 800, 975, 1150>>) @@
  (27 :> <<22, 44, 110, 330, 800, 975, 1150>>) @@
  (29 :> <<24, 48, 120, 360, 850, 1025, 1200>>) @@
  (31 :> <<26, 52, 130, 390, 900, 1100, 1275>>) @@
  (32 :> <<26, 52, 130, 390, 900, 1100, 1275>>) @@
  (34 :> <<28, 56, 150, 450, 1000, 1200, 1400>>) @@
  (37 :> <<35, 70, 175, 500, 1100, 1300, 1500>>) @@
  (39 :> <<50, 100, 200, 600, 1400, 1700, 2000>>)

GROUP_PROPERTIES ==
  [brown |-> <<1, 3>>, lightBlue |-> <<6, 8, 9>>, pink |-> <<11, 13, 14>>,
   orange |-> <<16, 18, 19>>, red |-> <<21, 23, 24>>,
   yellow |-> <<26, 27, 29>>, green |-> <<31, 32, 34>>,
   darkBlue |-> <<37, 39>>, railroad |-> <<5, 15, 25, 35>>,
   utility |-> <<12, 28>>]

\* Iteration order of GROUP_PROPERTIES.items() (dict insertion order).
GROUP_ORDER ==
  <<"brown", "lightBlue", "pink", "orange", "red", "yellow", "green",
    "darkBlue", "railroad", "utility">>

POSITION_TO_GROUP ==
  (1 :> "brown") @@ (3 :> "brown") @@
  (6 :> "lightBlue") @@ (8 :> "lightBlue") @@ (9 :> "lightBlue") @@
  (11 :> "pink") @@ (13 :> "pink") @@ (14 :> "pink") @@
  (16 :> "orange") @@ (18 :> "orange") @@ (19 :> "orange") @@
  (21 :> "red") @@ (23 :> "red") @@ (24 :> "red") @@
  (26 :> "yellow") @@ (27 :> "yellow") @@ (29 :> "yellow") @@
  (31 :> "green") @@ (32 :> "green") @@ (34 :> "green") @@
  (37 :> "darkBlue") @@ (39 :> "darkBlue") @@
  (5 :> "railroad") @@ (15 :> "railroad") @@ (25 :> "railroad") @@
  (35 :> "railroad") @@
  (12 :> "utility") @@ (28 :> "utility")

HOUSE_COST ==
  [brown |-> 50, lightBlue |-> 50, pink |-> 100, orange |-> 100, red |-> 150,
   yellow |-> 150, green |-> 200, darkBlue |-> 200]

\* dict.get(key, default)
Get(dict, key, default) == IF key \in DOMAIN dict THEN dict[key] ELSE default

\* The set of the elements of a list.
Elems(list) == {list[i] : i \in DOMAIN list}

\* The list <<f[1], ..., f[n]>> of a function f on 1..n.
ListOf(f) == SubSeq(f, 1, Len(f))

\* The concatenation of the lists of a list.
RECURSIVE Flatten(_)
Flatten(lists) ==
  IF lists = <<>> THEN <<>> ELSE Head(lists) \o Flatten(Tail(lists))

(***************************************************************************)
(* Python floats (IEEE 754 doubles, round to nearest, ties to even)        *)
(*                                                                         *)
(* A double x >= 0 is held as the natural number x * 2^70, written as its  *)
(* six digits in base 2^14, least significant first (FloatLimbs digits,    *)
(* 84 bits).  Every double met here is 0 or lies between 2^-17 and 2^14,   *)
(* or is the difference of two such doubles, so x * 2^70 is a natural      *)
(* number below 2^84.  The operations compute the exact result and round   *)
(* it to 53 significant bits, as the hardware does.  They are written      *)
(* without recursion over the digits (carries are looked ahead), which     *)
(* keeps their evaluation shallow.                                         *)
(***************************************************************************)

LimbBits == 14
LimbBase == 2 ^ LimbBits
FloatLimbs == 6
FractionLimbs == FloatLimbs - 1
MantissaBits == 53

\* The digit i (from 1) of the digit sequence a, 0 past its end.
Limb(a, i) == IF i \in DOMAIN a THEN a[i] ELSE 0

\* The addition of a and b carries into digit i: some digit below produces
\* a carry and every digit between passes it on.
CarryInto(a, b, i) ==
  \E j \in 1..(i - 1) :
    /\ Limb(a, j) + Limb(b, j) >= LimbBase
    /\ \A m \in (j + 1)..(i - 1) : Limb(a, m) + Limb(b, m) = LimbBase - 1

\* Exact a + b on digit sequences, in len digits.
BigAdd(a, b, len) ==
  ListOf([i \in 1..len |->
            (Limb(a, i) + Limb(b, i)
               + (IF CarryInto(a, b, i) THEN 1 ELSE 0)) % LimbBase])

\* The subtraction of b from a borrows from digit i.
BorrowFrom(a, b, i) ==
  \E j \in 1..(i - 1) :
    /\ Limb(a, j) < Limb(b, j)
    /\ \A m \in (j + 1)..(i - 1) : Limb(a, m) = Limb(b, m)

\* Exact a - b (a >= b) on digit sequences, in len digits.
BigSub(a, b, len) ==
  ListOf([i \in 1..len |->
            (Limb(a, i) - Limb(b, i)
               - (IF BorrowFrom(a, b, i) THEN 1 ELSE 0)
               + LimbBase) % LimbBase])

\* a < b on digit sequences of len digits.
BigLess(a, b, len) ==
  \E i \in 1..len :
    /\ Limb(a, i) < Limb(b, i)
    /\ \A j \in (i + 1)..len : Limb(a, j) = Limb(b, j)

\* The sum of the digit products of a and b that weigh LimbBase^(k - 1);
\* with FloatLimbs digits each it stays below 2^31.
Column(a, b, k) ==
  Limb(a, 1) * Limb(b, k) + Limb(a, 2) * Limb(b, k - 1)
    + Limb(a, 3) * Limb(b, k - 2) + Limb(a, 4) * Limb(b, k - 3)
    + Limb(a, 5) * Limb(b, k - 4) + Limb(a, 6) * Limb(b, k - 5)

\* Exact a * b of two sequences of FloatLimbs digits, in twice as many: the
\* column sums are cut into three digits each and the three sequences added.
BigMul(a, b) ==
  LET len == 2 * FloatLimbs
      columns == ListOf([k \in 1..len |-> Column(a, b, k)])
      low == ListOf([k \in 1..len |-> columns[k] % LimbBase])
      middle == ListOf([k \in 1..len |->
                          IF k <= 1 THEN 0
                          ELSE (columns[k - 1] \div LimbBase) % LimbBase])
      high == ListOf([k \in 1..len |->
                        IF k <= 2 THEN 0
                        ELSE columns[k - 2] \div (LimbBase * LimbBase)])
  IN  BigAdd(BigAdd(low, middle, len), high, len)

\* The number written by the digits of a from digit i up, modulo n.
RECURSIVE RemainderFrom(_, _, _)
RemainderFrom(a, n, i) ==
  IF i > Len(a) THEN 0
  ELSE (RemainderFrom(a, n, i + 1) * LimbBase + a[i]) % n

\* Exact floor(a / n) and the remainder, for a natural 0 < n < 2^17 (long
\* division, a digit at a time).
BigDivSmall(a, n) ==
  [quotient |->
     ListOf([i \in 1..Len(a) |->
               (RemainderFrom(a, n, i + 1) * LimbBase + a[i]) \div n]),
   remainder |-> RemainderFrom(a, n, 1)]

\* The bit i (from 0) of a.
Bit(a, i) == (Limb(a, (i \div LimbBits) + 1) \div (2 ^ (i % LimbBits))) % 2

\* The number of significant bits of a (0 for zero).
BitLength(a) ==
  LET top == CHOOSE i \in 0..Len(a) :
               /\ i = 0 \/ a[i] # 0
               /\ \A j \in (i + 1)..Len(a) : a[j] = 0
  IN  IF top = 0 THEN 0
      ELSE (top - 1) * LimbBits
             + CHOOSE k \in 1..LimbBits :
                 2 ^ (k - 1) <= a[top] /\ a[top] < 2 ^ k

\* a with its bits below bit s cleared.
ClearBelow(a, s) ==
  ListOf([i \in DOMAIN a |->
            IF i * LimbBits <= s THEN 0
            ELSE IF (i - 1) * LimbBits >= s THEN a[i]
            ELSE a[i] - (a[i] % (2 ^ (s - (i - 1) * LimbBits)))])

\* 2^s as a digit sequence of len digits.
BigPow2(s, len) ==
  ListOf([i \in 1..len |->
            IF i = (s \div LimbBits) + 1 THEN 2 ^ (s % LimbBits) ELSE 0])

\* Some bit of a below bit s is set.
AnyBitBelow(a, s) == ClearBelow(a, s) # a

\* a rounded to 53 significant bits, ties to even; sticky tells that the
\* exact value lies above a (a division left a remainder).
RoundToDouble(a, sticky) ==
  LET s == BitLength(a) - MantissaBits
  IN  IF s <= 0 THEN a
      ELSE LET round_up == /\ Bit(a, s - 1) = 1
                           /\ \/ sticky
                              \/ Bit(a, s) = 1
                              \/ AnyBitBelow(a, s - 1)
               kept == ClearBelow(a, s)
           IN  IF round_up THEN BigAdd(kept, BigPow2(s, Len(a)), Len(a))
               ELSE kept

\* The digits of a from digit from + 1 on, len of them.
Digits(a, from, len) == ListOf([i \in 1..len |-> Limb(a, i + from)])

\* x is a double: a sequence of FloatLimbs digits.
IsDouble(x) == Len(x) = FloatLimbs

\* float(k) for an integer 0 <= k < 2^14.
FloatOfInt(k) ==
  ListOf([i \in 1..FloatLimbs |-> IF i = FloatLimbs THEN k ELSE 0])

FloatZero == FloatOfInt(0)

\* x + y
FloatAdd(x, y) ==
  CASE IsDouble(x) /\ IsDouble(y) ->
    RoundToDouble(BigAdd(x, y, FloatLimbs), FALSE)

\* x * y
FloatMul(x, y) ==
  CASE IsDouble(x) /\ IsDouble(y) ->
    Digits(RoundToDouble(BigMul(x, y), FALSE), FractionLimbs, FloatLimbs)

\* x / n for an integer 0 < n < 2^17
FloatDivInt(x, n) ==
  CASE IsDouble(x) ->
    LET division == BigDivSmall(Digits(x, 0 - 1, FloatLimbs + 1), n)
    IN  Digits(RoundToDouble(division.quotient, division.remainder # 0),
               1, FloatLimbs)

\* x < y
FloatLess(x, y) ==
  CASE IsDouble(x) /\ IsDouble(y) -> BigLess(x, y, FloatLimbs)

\* x - y for doubles of any order: the sign of the result and the double
\* that is its absolute value.
FloatSub(x, y) ==
  CASE IsDouble(x) /\ IsDouble(y) ->
    IF x = y THEN [sign |-> 0, magnitude |-> FloatZero]
    ELSE IF FloatLess(y, x)
    THEN [sign |-> 1,
          magnitude |-> RoundToDouble(BigSub(x, y, FloatLimbs), FALSE)]
    ELSE [sign |-> 0 - 1,
          magnitude |-> RoundToDouble(BigSub(y, x, FloatLimbs), FALSE)]

\* The double a decimal literal denotes: numerator / denominator, correctly
\* rounded (0.85 is FloatOfDecimal(85, 100)).
FloatOfDecimal(numerator, denominator) ==
  FloatDivInt(FloatOfInt(numerator), denominator)

(***************************************************************************)
(* Python sets (CPython 3.11, Objects/setobject.c)                         *)
(*                                                                         *)
(* The order in which `for pos in owned_positions` meets the elements of a *)
(* set is the order of the slots of its hash table, and the float sum of   *)
(* calculate_ept depends on it.  A set object is held here as its table: a *)
(* list of 8, 16, 32, ... slots, each an element (a position is its own    *)
(* hash), Unused, or Dummy (an element since discarded).  Slots are        *)
(* numbered from 0; slot i is table[i + 1].  The table of a set depends on *)
(* how the set was built: its history, the list of the operations add,     *)
(* discard and copy that made it from set(), is an input of every          *)
(* operator that iterates over a set.                                      *)
(***************************************************************************)

Unused == 0 - 1
Dummy == 0 - 2
PySet_MINSIZE == 8
LINEAR_PROBES == 9

\* An empty table of the given number of slots.
NewTable(size) == ListOf([i \in 1..size |-> Unused])

\* so->fill: the slots in use or dummy; so->used: the elements.
set_fill(table) == Cardinality({i \in DOMAIN table : table[i] # Unused})
set_used(table) == Cardinality({i \in DOMAIN table : table[i] >= 0})

\* The elements in the order of iteration.
set_iter(table) == SelectSeq(table, LAMBDA key : key >= 0)

\* The slot the probe sequence of key ends in, from slot i on: the first
\* slot that is unused or holds key, looked for in the LINEAR_PROBES slots
\* after i where they fit, then at i * 5 + 1 + perturb with perturb >> 5.
RECURSIVE set_lookkey(_, _, _, _)
set_lookkey(table, key, i, perturb) ==
  LET mask == Len(table) - 1
      probes == IF i + LINEAR_PROBES <= mask THEN LINEAR_PROBES ELSE 0
      found == {j \in i..(i + probes) :
                  table[j + 1] = Unused \/ table[j + 1] = key}
  IN  IF found # {} THEN CHOOSE j \in found : \A m \in found : j <= m
      ELSE set_lookkey(table, key,
                       (i * 5 + 1 + (perturb \div 32)) % (mask + 1),
                       perturb \div 32)

\* The slot of key in the table, or the slot it would be put in.
set_slot(table, key) == set_lookkey(table, key, key % Len(table), key)

\* set_insert_clean for the keys of the list from the k-th on.
RECURSIVE set_insert_clean(_, _, _)
set_insert_clean(table, keys, k) ==
  CASE k > Len(keys) -> table
    [] k <= Len(keys) /\ Len(table) > 0 ->
         set_insert_clean([table EXCEPT ![set_slot(table, keys[k]) + 1] =
                                          keys[k]],
                          keys, k + 1)

\* set_table_resize: the smallest table of more than minused slots, the
\* elements put in again in the order of the old table.
set_table_resize(table, minused) ==
  LET newsize == CHOOSE size \in {8, 16, 32, 64, 128, 256} :
                   /\ size > minused
                   /\ size = PySet_MINSIZE \/ size \div 2 <= minused
  IN  set_insert_clean(NewTable(newsize), set_iter(table), 1)

\* freeslot: the last Dummy slot the probe sequence of key passes before it
\* ends in `slot`, or Unused (none).  The probe sequence is followed as in
\* set_lookkey.
RECURSIVE set_freeslot(_, _, _, _, _, _)
set_freeslot(table, key, i, perturb, slot, freeslot) ==
  LET mask == Len(table) - 1
      probes == IF i + LINEAR_PROBES <= mask THEN LINEAR_PROBES ELSE 0
      found == slot \in i..(i + probes)
      passed == {j \in i..(i + probes) :
                   (found => j <= slot) /\ table[j + 1] = Dummy}
      last == IF passed = {} THEN freeslot
              ELSE CHOOSE j \in passed : \A m \in passed : m <= j
  IN  IF found THEN last
      ELSE set_freeslot(table, key,
                        (i * 5 + 1 + (perturb \div 32)) % (mask + 1),
                        perturb \div 32, slot, last)

\* set_add_entry: nothing for a key already there; a key that is new goes
\* into the free (Dummy) slot met on the way if there is one; else it fills
\* the unused slot, and the table grows to more than four times its
\* elements once three fifths of the slots are filled.
set_add_entry(table, key) ==
  LET slot == set_slot(table, key)
      freeslot == set_freeslot(table, key, key % Len(table), key, slot,
                               Unused)
      added == [table EXCEPT ![slot + 1] = key]
  IN  IF table[slot + 1] = key THEN table
      ELSE IF freeslot # Unused THEN [table EXCEPT ![freeslot + 1] = key]
      ELSE IF set_fill(added) * 5 < (Len(table) - 1) * 3 THEN added
      ELSE set_table_resize(added, set_used(added) * 4)

\* set_add_entry for the keys of the list from the k-th on.
RECURSIVE set_add_entries(_, _, _)
set_add_entries(table, keys, k) ==
  CASE k > Len(keys) -> table
    [] k <= Len(keys) /\ Len(table) > 0 ->
         set_add_entries(set_add_entry(table, keys[k]), keys, k + 1)

\* set_merge (so.update(other) for a set other): one resize at the start;
\* an empty table of the size of other takes its slots as they are, an
\* empty table of another size its elements without looking for
\* duplicates, any other table one element after the other.
set_merge(so, other) ==
  LET resized == IF (set_fill(so) + set_used(other)) * 5
                      >= (Len(so) - 1) * 3
                 THEN set_table_resize(so, (set_used(so) + set_used(other)) * 2)
                 ELSE so
  IN  IF set_used(other) = 0 THEN so
      ELSE IF /\ set_fill(resized) = 0
              /\ Len(resized) = Len(other)
              /\ set_fill(other) = set_used(other)
      THEN other
      ELSE IF set_fill(resized) = 0
      THEN set_insert_clean(resized, set_iter(other), 1)
      ELSE set_add_entries(resized, set_iter(other), 1)

\* set_copy: set(so)
set_copy(so) == set_merge(NewTable(PySet_MINSIZE), so)

\* set_discard_entry for the keys of the list from the k-th on: the slot
\* of a key found becomes Dummy.
RECURSIVE set_discard_entries(_, _, _)
set_discard_entries(table, keys, k) ==
  CASE k > Len(keys) -> table
    [] k <= Len(keys) /\ Len(table) > 0 ->
         LET slot == set_slot(table, keys[k])
         IN  set_discard_entries(
               IF table[slot + 1] = keys[k]
               THEN [table EXCEPT ![slot + 1] = Dummy]
               ELSE table,
               keys, k + 1)

\* so - other for two sets: a copy with the elements of other discarded
\* when so has more than four times the elements of other, else a new set
\* of the elements of so that are not in other, added in the order of so.
set_difference(so, other) ==
  IF set_used(so) \div 4 > set_used(other)
  THEN set_discard_entries(set_copy(so), set_iter(other), 1)
  ELSE set_add_entries(NewTable(PySet_MINSIZE),
                       SelectSeq(set_iter(so),
                                 LAMBDA key : key \notin Elems(other)),
                       1)

\* so | other for two sets: a copy of so updated with other.
set_or(so, other) == set_merge(set_copy(so), other)

\* The operations of a history: s.add(key), s.discard(key), s = set(s).
Add(key) == <<"add", key>>
Discard(key) == <<"discard", key>>
Copy == <<"copy">>

\* The table after the operations of the history from the k-th on.
RECURSIVE set_history(_, _, _)
set_history(table, history, k) ==
  CASE k > Len(history) -> table
    [] k <= Len(history) /\ Len(table) > 0 ->
         set_history(
           CASE history[k][1] = "add" ->
                  set_add_entry(table, history[k][2])
             [] history[k][1] = "discard" ->
                  set_discard_entries(table, <<history[k][2]>>, 1)
             [] history[k][1] = "copy" -> set_copy(table),
           history, k + 1)

\* The set object a history makes, starting from set().
PySet(history) == set_history(NewTable(PySet_MINSIZE), history, 1)

(***************************************************************************)
(* board_mapping.py : PropertyInfo and BoardMapper                         *)
(***************************************************************************)

\* PropertyInfo.get_rent: rents default to [0] * 7 (railroads and utilities
\* have no RENT_TABLE entry); a level past the schedule gives the last tier.
get_rent(position, level) ==
  LET rents == Get(RENT_TABLE, position, <<0, 0, 0, 0, 0, 0, 0>>)
  IN  IF level < Len(rents) THEN rents[level + 1] ELSE rents[Len(rents)]

\* The doubles the literals of LANDING_PROBABILITIES denote.
LANDING_PROBABILITIES_FLOAT ==
  [position \in DOMAIN LANDING_PROBABILITIES |->
     FloatOfDecimal(LANDING_PROBABILITIES[position], 10000)]

\* The double 0.025.
DEFAULT_LANDING_PROBABILITY == FloatOfDecimal(250, 10000)

\* LANDING_PROBABILITIES.get(self.position, 0.025)
get_landing_probability(position) ==
  Get(LANDING_PROBABILITIES_FLOAT, position, DEFAULT_LANDING_PROBABILITY)

\* The doubles the literals of GROUP_QUALITY denote.
GROUP_QUALITY_FLOAT ==
  [group \in DOMAIN GROUP_QUALITY |->
     FloatOfDecimal(GROUP_QUALITY[group], 100)]

\* GROUP_QUALITY.get(group, 1.0)
get_group_quality(group) == Get(GROUP_QUALITY_FLOAT, group, FloatOfInt(1))

get_group_properties(group) == Get(GROUP_PROPERTIES, group, <<>>)

\* has_monopoly with any() in place of all().
has_monopoly_any(owned_positions, group) ==
  \E i \in DOMAIN get_group_properties(group) :
    get_group_properties(group)[i] \in owned_positions

has_monopoly(owned_positions, group) ==
  \A i \in DOMAIN get_group_properties(group) :
    get_group_properties(group)[i] \in owned_positions

\* Sum of f[x] over the finite set S.
RECURSIVE SumOver(_, _)
SumOver(f, S) ==
  IF S = {} THEN 0
  ELSE LET x == CHOOSE y \in S : TRUE
       IN  f[x] + SumOver(f, S \ {x})

\* prob * rent * num_opponents for every position of self.properties, both
\* rent levels and 0 to 5 opponents (entry num_opponents + 1).
EPT_TERMS ==
  [pos \in DOMAIN PROPERTY_PRICES |->
     [level \in 0..1 |->
        ListOf([n \in 1..6 |->
                  FloatMul(FloatMul(get_landing_probability(pos),
                                    FloatOfInt(get_rent(pos, level))),
                           FloatOfInt(n - 1))])]]

\* prob * rent * num_opponents for one position of self.properties, at the
\* level `1 if has_monopoly else 0`.
ept_term(owned_positions, pos, num_opponents) ==
  LET group == Get(POSITION_TO_GROUP, pos, None)
      level == IF has_monopoly(owned_positions, group) THEN 1 ELSE 0
  IN  EPT_TERMS[pos][level][num_opponents + 1]

\* total_ept += prob * rent * num_opponents for the positions of the list
\* from the k-th on.
RECURSIVE ept_loop(_, _, _, _, _)
ept_loop(owned_positions, num_opponents, positions, k, total_ept) ==
  CASE k > Len(positions) -> total_ept
    [] k <= Len(positions) /\ IsDouble(total_ept) ->
         ept_loop(owned_positions, num_opponents, positions, k + 1,
                  FloatAdd(total_ept,
                           ept_term(owned_positions, positions[k],
                                    num_opponents)))

\* BoardMapper.calculate_ept.  owned_positions is a Python set; the order
\* in which the loop meets its elements is not fixed by the language and is
\* given as the list iteration.  The sum is a double and depends on it.
\* self.properties has an entry exactly for the positions of
\* PROPERTY_PRICES; the loop skips the other positions.
calculate_ept(owned_positions, num_opponents, iteration) ==
  ept_loop(owned_positions, num_opponents,
           SelectSeq(iteration, LAMBDA pos : pos \in DOMAIN PROPERTY_PRICES),
           1, FloatZero)

(***************************************************************************)
(* strategic_ai.py : data classes                                          *)
(***************************************************************************)

\* PlayerState(player_id, cash, properties) with the dataclass defaults.
PlayerState(player_id, cash, properties) ==
  [player_id |-> player_id, cash |-> cash, properties |-> properties,
   position |-> 0, in_jail |-> FALSE, mortgaged |-> {}, houses |-> <<>>]

\* GameState(my_state, opponents, current_turn) with the dataclass defaults.
GameState(my_state, opponents, current_turn) ==
  [my_state |-> my_state, opponents |-> opponents,
   current_turn |-> current_turn, turn_number |-> 0,
   available_houses |-> 32, available_hotels |-> 12]

TradeOffer(from_player, to_player, properties_offered, properties_requested, cash_offered, cash_requested) ==
  [from_player |-> from_player, to_player |-> to_player,
   properties_offered |-> properties_offered,
   properties_requested |-> properties_requested,
   cash_offered |-> cash_offered, cash_requested |-> cash_requested]

\* StrategicAI.__init__: the bid premium and the debt ratio in hundredths,
\* the quality ratios 0.85 and 1.4 as doubles.
StrategicAI ==
  [base_bid_premium |-> 5, max_debt_ratio |-> 15, max_absolute_debt |-> 400,
   absolute_min_cash |-> 75, smart_blocking |-> TRUE,
   min_quality_ratio |-> FloatOfDecimal(85, 100),
   max_quality_ratio |-> FloatOfDecimal(140, 100)]

(***************************************************************************)
(* strategic_ai.py : valuation                                             *)
(***************************************************************************)

\* quality += GROUP_QUALITY.get(group, 1.0) for the groups of the list from
\* the k-th on.
RECURSIVE quality_loop(_, _, _)
quality_loop(groups, k, quality) ==
  CASE k > Len(groups) -> quality
    [] k <= Len(groups) /\ IsDouble(quality) ->
         quality_loop(groups, k + 1,
                      FloatAdd(quality, get_group_quality(groups[k])))

\* get_monopoly_quality that stops after the first complete group.
get_monopoly_quality_first(properties) ==
  LET complete == SelectSeq(GROUP_ORDER,
                            LAMBDA group : has_monopoly(properties, group))
  IN  IF complete = <<>> THEN FloatZero
      ELSE get_group_quality(complete[1])

\* The quality is a double: the multipliers of the groups all of whose
\* positions are in properties, added in the order of GROUP_PROPERTIES.
get_monopoly_quality(properties) ==
  quality_loop(SelectSeq(GROUP_ORDER,
                         LAMBDA group : has_monopoly(properties, group)),
               1, FloatZero)

(***************************************************************************)
(* strategic_ai.py : purchase decision                                     *)
(***************************************************************************)

\* sum(1 for o in state.opponents if o != opp and position not in
\* o.properties and any(p in o.properties for p in GROUP_PROPERTIES[group]))
\* (o != opp is dataclass inequality: the records differ in some field).
other_blockers(state, opp, position, group) ==
  Cardinality({j \in DOMAIN state.opponents :
    LET o == state.opponents[j]
    IN  /\ o # opp
        /\ position \notin o.properties
        /\ \E i \in DOMAIN get_group_properties(group) :
             get_group_properties(group)[i] \in o.properties})

\* The blocking loop with the sole-blocker count taken over every opponent,
\* the completing one included (`o != opp` left out).
blocking_accepts_counting_completer(self, state, position, group) ==
  \E k \in DOMAIN state.opponents :
    /\ has_monopoly(state.opponents[k].properties \cup {position}, group)
    /\ (self.smart_blocking =>
          \A j \in DOMAIN state.opponents :
            \/ position \in state.opponents[j].properties
            \/ \A i \in DOMAIN get_group_properties(group) :
                 get_group_properties(group)[i]
                   \notin state.opponents[j].properties)

\* The blocking loop (strategic_ai.py 167-180): true iff some iteration
\* returns True.
blocking_accepts(self, state, position, group) ==
  \E k \in DOMAIN state.opponents :
    LET opp == state.opponents[k]
    IN  /\ has_monopoly(opp.properties \cup {position}, group)
        /\ (self.smart_blocking =>
              other_blockers(state, opp, position, group) = 0)

\* The hard floor applied to the cash alone, the price forgotten.
below_cash_floor_no_price(self, player, price) ==
  player.cash < self.absolute_min_cash

\* strategic_ai.py 154: "must have minimum cash after purchase".
below_cash_floor(self, player, price) ==
  player.cash - price < self.absolute_min_cash

\* The default rule with the comparison turned round.
default_purchase_rule_flipped(self, player, price) ==
  player.cash - price <= self.absolute_min_cash + 100

\* strategic_ai.py 183: "buy if we can afford with buffer".
default_purchase_rule(self, player, price) ==
  player.cash - price >= self.absolute_min_cash + 100

\* should_buy_property without the own-monopoly branch.
should_buy_property_no_completion(self, state, position, price) ==
  LET player == state.my_state
      group == Get(POSITION_TO_GROUP, position, None)
  IN  IF below_cash_floor(self, player, price) THEN FALSE
      ELSE IF group = None THEN TRUE
      ELSE IF blocking_accepts(self, state, position, group) THEN TRUE
      ELSE default_purchase_rule(self, player, price)

should_buy_property(self, state, position, price) ==
  LET player == state.my_state
      group == Get(POSITION_TO_GROUP, position, None)
      props_after == player.properties \cup {position}
  IN  IF below_cash_floor(self, player, price) THEN FALSE
      ELSE IF group = None THEN TRUE
      ELSE IF has_monopoly(props_after, group) THEN TRUE
      ELSE IF blocking_accepts(self, state, position, group) THEN TRUE
      ELSE default_purchase_rule(self, player, price)

(***************************************************************************)
(* strategic_ai.py : trade evaluation                                      *)
(***************************************************************************)

my_props_after(player, offer) ==
  (player.properties \ offer.properties_requested)
    \cup offer.properties_offered

\* The set object (player.properties - offer.properties_requested)
\* | offer.properties_offered.
my_props_after_set(insertion) ==
  set_or(set_difference(PySet(insertion.my_state),
                        PySet(insertion.properties_requested)),
         PySet(insertion.properties_offered))

\* my_cash_after that forgets the cash the proposer asks for.
my_cash_after_no_request(player, offer) == player.cash + offer.cash_offered

my_cash_after(player, offer) ==
  player.cash + offer.cash_offered - offer.cash_requested

\* "proposer = None": no PlayerState (a record, so that it can be compared
\* with one).
NoPlayer == [player_id |-> None]

\* The first opponent whose player_id is offer.from_player, or None.
find_proposer(state, offer) ==
  LET matches == {k \in DOMAIN state.opponents :
                    state.opponents[k].player_id = offer.from_player}
  IN  IF matches = {} THEN NoPlayer
      ELSE state.opponents[CHOOSE k \in matches : \A j \in matches : k <= j]

their_props_after(proposer, offer) ==
  (proposer.properties \ offer.properties_offered)
    \cup offer.properties_requested

no_monopoly_gain(we_gain_monopoly, they_gain_monopoly) ==
  ~we_gain_monopoly /\ ~they_gain_monopoly

\* strategic_ai.py 285-291; insertion holds the histories of the three
\* sets involved (my_state: player.properties; properties_requested and
\* properties_offered: those of the offer), which fix the order in which
\* each EPT sum meets its positions.
ept_comparison(state, offer, insertion) ==
  LET player == state.my_state
      ept_before == calculate_ept(player.properties, Len(state.opponents),
                                  set_iter(PySet(insertion.my_state)))
      ept_after == calculate_ept(my_props_after(player, offer),
                                 Len(state.opponents),
                                 set_iter(my_props_after_set(insertion)))
      net_cash == offer.cash_offered - offer.cash_requested
  IN  \/ FloatLess(ept_before, ept_after)
      \/ (ept_after = ept_before /\ net_cash > 0)

\* The quality filter without its first, rejecting step.
trade_quality_filter_no_rejection(self, our_quality, their_quality, we_gain_monopoly, they_gain_monopoly, offer) ==
  IF ~FloatLess(our_quality, FloatMul(their_quality, self.min_quality_ratio))
  THEN TRUE
  ELSE IF they_gain_monopoly /\ ~we_gain_monopoly
  THEN offer.cash_offered - offer.cash_requested > 200
  ELSE TRUE

\* strategic_ai.py 293-309; the qualities and the ratios of self are
\* doubles.
trade_quality_filter(self, our_quality, their_quality, we_gain_monopoly, they_gain_monopoly, offer) ==
  IF FloatLess(FloatMul(our_quality, self.max_quality_ratio), their_quality)
  THEN FALSE
  ELSE IF ~FloatLess(our_quality,
                     FloatMul(their_quality, self.min_quality_ratio))
  THEN TRUE
  ELSE IF they_gain_monopoly /\ ~we_gain_monopoly
  THEN offer.cash_offered - offer.cash_requested > 200
  ELSE TRUE

evaluate_trade(self, state, offer, insertion) ==
  LET player == state.my_state
      proposer == find_proposer(state, offer)
  IN  IF my_cash_after(player, offer) < self.absolute_min_cash THEN FALSE
      ELSE IF proposer = NoPlayer THEN FALSE
      ELSE
        LET our_quality ==
              get_monopoly_quality(my_props_after(player, offer))
            their_quality ==
              get_monopoly_quality(their_props_after(proposer, offer))
            our_quality_before == get_monopoly_quality(player.properties)
            their_quality_before ==
              get_monopoly_quality(proposer.properties)
            we_gain_monopoly == FloatLess(our_quality_before, our_quality)
            they_gain_monopoly ==
              FloatLess(their_quality_before, their_quality)
        IN  IF no_monopoly_gain(we_gain_monopoly, they_gain_monopoly)
            THEN ept_comparison(state, offer, insertion)
            ELSE trade_quality_filter(self, our_quality, their_quality,
                                      we_gain_monopoly, they_gain_monopoly,
                                      offer)

(***************************************************************************)
(* strategic_ai.py : net worth and auction bid                             *)
(***************************************************************************)

Min(a, b) == IF a <= b THEN a ELSE b

\* int(x * num / den): the product truncated toward zero.  For the prices,
\* ceilings and net worths of this board the float products of the code
\* (x * 1.05, x * 1.5, x * 1.3, x * 0.15) truncate to the same integers.
Trunc(x, num, den) ==
  IF x >= 0 THEN (x * num) \div den ELSE 0 - (((0 - x) * num) \div den)

\* The share of a property with the houses counted on a mortgaged one too.
net_worth_of_houses_on_mortgaged(player, pos) ==
  LET price == Get(PROPERTY_PRICES, pos, 0)
      houses == Get(player.houses, pos, 0)
      group == Get(POSITION_TO_GROUP, pos, None)
      built == IF group # None /\ houses > 0
               THEN houses * Get(HOUSE_COST, group, 100) ELSE 0
  IN  IF pos \in player.mortgaged THEN price \div 2 + built
      ELSE price + built

\* One property's share of the net worth (strategic_ai.py 92-98).
net_worth_of(player, pos) ==
  LET price == Get(PROPERTY_PRICES, pos, 0)
      houses == Get(player.houses, pos, 0)
      group == Get(POSITION_TO_GROUP, pos, None)
  IN  IF pos \in player.mortgaged THEN price \div 2
      ELSE IF group # None /\ houses > 0
           THEN price + houses * Get(HOUSE_COST, group, 100)
           ELSE price

calculate_net_worth(player) ==
  player.cash
    + SumOver([pos \in player.properties |-> net_worth_of(player, pos)],
              player.properties)

\* "Base max bid: face value + premium".
base_max_bid(self, price) == Trunc(price, 100 + self.base_bid_premium, 100)

\* "50% more for monopoly completion".
own_monopoly_bonus(max_bid) == Trunc(max_bid, 15, 10)

\* "30% more to block".
blocking_bonus(max_bid) == Trunc(max_bid, 13, 10)

completes_own_monopoly(player, position, group) ==
  group # None /\ has_monopoly(player.properties \cup {position}, group)

\* An opponent counted as completing as soon as it would hold one position
\* of the group.
opponent_completes_any(opp, position, group) ==
  has_monopoly_any(opp.properties \cup {position}, group)

opponent_completes(opp, position, group) ==
  has_monopoly(opp.properties \cup {position}, group)

\* The blocking loop stops (break) at the first opponent the position would
\* complete a group for: the index of that opponent, 0 when there is none.
first_completing_opponent(state, position, group) ==
  LET completing == {k \in DOMAIN state.opponents :
                       opponent_completes(state.opponents[k], position, group)}
  IN  IF completing = {} THEN 0
      ELSE CHOOSE k \in completing : \A j \in completing : k <= j

\* Whether the blocking loop multiplies the ceiling by 1.3.
blocking_bonus_applies(self, state, position, group) ==
  LET k == first_completing_opponent(state, position, group)
  IN  /\ k # 0
      /\ (self.smart_blocking =>
            other_blockers(state, state.opponents[k], position, group) = 0)

\* sum(PROPERTY_PRICES.get(p, 0) // 2 for p in player.mortgaged)
current_debt(player) ==
  SumOver([p \in player.mortgaged |-> Get(PROPERTY_PRICES, p, 0) \div 2],
          player.mortgaged)

max_debt(self, player) ==
  Min(self.max_absolute_debt,
      Trunc(calculate_net_worth(player), self.max_debt_ratio, 100))

\* The bid room with the cash reserve forgotten.
affordable_no_reserve(self, player) ==
  player.cash + (max_debt(self, player) - current_debt(player))

\* "Can't bid more than cash + available debt room".
affordable(self, player) ==
  player.cash + (max_debt(self, player) - current_debt(player))
    - self.absolute_min_cash

\* A ceiling above the bid room dropped to zero, not lowered to the room.
clamp_or_drop(max_bid, room) == IF max_bid <= room THEN max_bid ELSE 0

\* max_bid = min(max_bid, affordable)
clamp(max_bid, room) == Min(max_bid, room)

\* The ceiling before the debt constraint, from the face price and the two
\* adjustments (strategic_ai.py 199-220).
unclamped_ceiling(self, price, own, blocking) ==
  LET base == base_max_bid(self, price)
      after_own == IF own THEN own_monopoly_bonus(base) ELSE base
  IN  IF blocking THEN blocking_bonus(after_own) ELSE after_own

\* The ceiling as the code computes it from the price, the two adjustments
\* and the bid room.
bid_ceiling(self, price, own, blocking, room) ==
  clamp(unclamped_ceiling(self, price, own, blocking), room)

auction_price(position) == Get(PROPERTY_PRICES, position, 100)

auction_ceiling(self, state, position) ==
  LET player == state.my_state
      group == Get(POSITION_TO_GROUP, position, None)
  IN  bid_ceiling(self, auction_price(position),
                  completes_own_monopoly(player, position, group),
                  blocking_bonus_applies(self, state, position, group),
                  affordable(self, player))

\* The increment bid with the ceiling forgotten.
next_bid_unbounded(max_bid, current_bid) ==
  IF max_bid <= current_bid THEN 0 ELSE current_bid + 10

\* "Only bid if we can beat current bid", then "bid incrementally above
\* current".
next_bid(max_bid, current_bid) ==
  IF max_bid <= current_bid THEN 0 ELSE Min(current_bid + 10, max_bid)

get_auction_bid(self, state, position, current_bid) ==
  next_bid(auction_ceiling(self, state, position), current_bid)

(***************************************************************************)
(* strategic_ai.py : trade proposals                                       *)
(***************************************************************************)

\* [p for p in positions if p in owned]
held_of(positions, owned) == SelectSeq(positions, LAMBDA p : p \in owned)

\* [p for p in positions if p not in owned]
missing_of(positions, owned) == SelectSeq(positions, LAMBDA p : p \notin owned)

\* The swap with no cash adjustment.
swap_offer_no_cash(player, opp, give, needed_pos) ==
  TradeOffer(player.player_id, opp.player_id, {give}, {needed_pos}, 0, 0)

\* "Simple 1-for-1 trade", then "adjust with cash if values differ".
swap_offer(player, opp, give, needed_pos) ==
  LET offer == TradeOffer(player.player_id, opp.player_id, {give},
                          {needed_pos}, 0, 0)
      our_value == Get(PROPERTY_PRICES, give, 0)
      their_value == Get(PROPERTY_PRICES, needed_pos, 0)
      diff == their_value - our_value
  IN  IF diff > 0 THEN [offer EXCEPT !.cash_offered = diff]
      ELSE [offer EXCEPT !.cash_requested = 0 - diff]

\* The reverse offer with the cash left on the proposer's sides.
reverse_offer_cash_unswapped(player, opp, offer, give, needed_pos) ==
  TradeOffer(opp.player_id, player.player_id, {needed_pos}, {give},
             offer.cash_offered, offer.cash_requested)

\* "Check if this trade passes our own filter (swap perspectives)".
reverse_offer(player, opp, offer, give, needed_pos) ==
  TradeOffer(opp.player_id, player.player_id, {needed_pos}, {give},
             offer.cash_requested, offer.cash_offered)

\* The histories of the sets evaluate_trade meets when it is asked about
\* the reverse offer: player.properties as it was built, and the two
\* one-element sets {needed_pos} and {their_needed[0]} of the offer.
reverse_insertion(insertion, give, needed_pos) ==
  [my_state |-> insertion.my_state,
   properties_offered |-> <<Add(needed_pos)>>,
   properties_requested |-> <<Add(give)>>]

\* for their_group, their_positions in GROUP_PROPERTIES.items(): the offers
\* the loop appends for one needed position held by opp.  insertion holds
\* the history of player.properties (my_state).
offers_their_groups(self, state, opp, needed_pos, insertion) ==
  Flatten(ListOf(
    [t \in 1..Len(GROUP_ORDER) |->
       LET player == state.my_state
           their_positions == GROUP_PROPERTIES[GROUP_ORDER[t]]
           their_owned == held_of(their_positions, opp.properties)
           their_needed == held_of(their_positions, player.properties)
       IN  IF Len(their_owned) > 0 /\ Len(their_needed) > 0
           THEN LET offer == swap_offer(player, opp, their_needed[1],
                                        needed_pos)
                    reverse == reverse_offer(player, opp, offer,
                                             their_needed[1], needed_pos)
                IN  IF evaluate_trade(self, state, reverse,
                                      reverse_insertion(insertion,
                                                        their_needed[1],
                                                        needed_pos))
                    THEN <<offer>>
                    ELSE <<>>
           ELSE <<>>]))

\* for opp in state.opponents: if needed_pos in opp.properties
offers_opponents(self, state, needed_pos, insertion) ==
  Flatten(ListOf(
    [k \in 1..Len(state.opponents) |->
       IF needed_pos \in state.opponents[k].properties
       THEN offers_their_groups(self, state, state.opponents[k], needed_pos,
                                insertion)
       ELSE <<>>]))

\* for needed_pos in needed
offers_needed(self, state, needed, insertion) ==
  Flatten(ListOf(
    [i \in 1..Len(needed) |->
       offers_opponents(self, state, needed[i], insertion)]))

\* for group, positions in GROUP_PROPERTIES.items()
offers_groups(self, state, insertion) ==
  Flatten(ListOf(
    [g \in 1..Len(GROUP_ORDER) |->
       LET player == state.my_state
           positions == GROUP_PROPERTIES[GROUP_ORDER[g]]
           owned_in_group == held_of(positions, player.properties)
           needed == missing_of(positions, player.properties)
       IN  IF Len(owned_in_group) = 0 \/ Len(needed) = 0 THEN <<>>
           ELSE offers_needed(self, state, needed, insertion)]))

\* The offers in the order in which the loops append them.
generate_trade_offers(self, state, insertion) ==
  offers_groups(self, state, insertion)

(***************************************************************************)
(* strategic_ai.py : building and jail decisions                           *)
(***************************************************************************)

\* The smallest element of a non-empty list of integers.
min_of(list) ==
  CHOOSE m \in Elems(list) : \A x \in Elems(list) : m <= x

\* not group or group in ['railroad', 'utility']
not_developable(group) == group = None \/ group \in {"railroad", "utility"}

\* The cost check with the 50 buffer forgotten.
cannot_afford_house_no_buffer(self, player, group) ==
  player.cash - Get(HOUSE_COST, group, 100) < self.absolute_min_cash

\* "Check cost".
cannot_afford_house(self, player, group) ==
  player.cash - Get(HOUSE_COST, group, 100) < self.absolute_min_cash + 50

\* The even building rule measured against the most developed position of
\* the group (max for min).
ahead_of_group_of_highest(player, position, group) ==
  LET houses_in_group ==
        [i \in DOMAIN GROUP_PROPERTIES[group] |->
           Get(player.houses, GROUP_PROPERTIES[group][i], 0)]
      current_houses == Get(player.houses, position, 0)
  IN  \A i \in DOMAIN houses_in_group : current_houses > houses_in_group[i]

\* "Check even building rule": must build on lowest first.
ahead_of_group(player, position, group) ==
  LET houses_in_group ==
        [i \in DOMAIN GROUP_PROPERTIES[group] |->
           Get(player.houses, GROUP_PROPERTIES[group][i], 0)]
      current_houses == Get(player.houses, position, 0)
  IN  current_houses > min_of(houses_in_group)

\* "Max 4 houses before hotel".
at_house_cap(player, position) == Get(player.houses, position, 0) >= 4

should_build_house(self, state, position) ==
  LET player == state.my_state
      group == Get(POSITION_TO_GROUP, position, None)
  IN  IF not_developable(group) THEN FALSE
      ELSE IF ~has_monopoly(player.properties, group) THEN FALSE
      ELSE IF state.available_houses <= 0 THEN FALSE
      ELSE IF cannot_afford_house(self, player, group) THEN FALSE
      ELSE IF ahead_of_group(player, position, group) THEN FALSE
      ELSE IF at_house_cap(player, position) THEN FALSE
      ELSE TRUE

\* The groups in the order of the board.
priority_groups_board_order ==
  <<"brown", "lightBlue", "pink", "orange", "red", "yellow", "green",
    "darkBlue">>

\* "Based on ROI rankings at 3 houses".
priority_groups ==
  <<"orange", "red", "darkBlue", "yellow", "green", "pink", "lightBlue",
    "brown">>

\* for pos in props, from the i-th position of the group on.
RECURSIVE buildable_in_group(_, _, _, _)
buildable_in_group(self, state, props, i) ==
  IF i > Len(props) THEN <<>>
  ELSE LET rest == buildable_in_group(self, state, props, i + 1)
       IN  IF should_build_house(self, state, props[i])
           THEN <<props[i]>> \o rest
           ELSE rest

\* for group in priority_groups, from the g-th group on.
RECURSIVE buildable_from(_, _, _)
buildable_from(self, state, g) ==
  IF g > Len(priority_groups) THEN <<>>
  ELSE LET group == priority_groups[g]
           rest == buildable_from(self, state, g + 1)
       IN  IF ~has_monopoly(state.my_state.properties, group) THEN rest
           ELSE buildable_in_group(self, state, GROUP_PROPERTIES[group], 1)
                  \o rest

get_building_priority(self, state) == buildable_from(self, state, 1)

\* sum(player.houses.values())
houses_of(player) == SumOver(player.houses, DOMAIN player.houses)

\* The houses of the opponents from the k-th on.
RECURSIVE opponents_houses(_, _)
opponents_houses(state, k) ==
  IF k > Len(state.opponents) THEN 0
  ELSE houses_of(state.opponents[k]) + opponents_houses(state, k + 1)

\* "Pay if we have monopolies to defend/collect".
holds_a_monopoly(player) ==
  \E g \in DOMAIN GROUP_ORDER : has_monopoly(player.properties, GROUP_ORDER[g])

\* The late-game test passed from 10 houses on.
late_game_from_ten(state) ==
  houses_of(state.my_state) + opponents_houses(state, 1) >= 10

\* "Also pay if game is late (lots of development on board)".
late_game(state) ==
  houses_of(state.my_state) + opponents_houses(state, 1) > 10

should_pay_jail_fee(self, state) ==
  IF holds_a_monopoly(state.my_state) THEN TRUE
  ELSE IF late_game(state) THEN TRUE
  ELSE FALSE

(***************************************************************************)
(* strategic_ai.py : mortgage decisions                                    *)
(***************************************************************************)

\* The exception a comparison of None with a bool raises.
TypeError == "TypeError"

\* The two ways a call ends: with a value, or with an exception that
\* propagates to the caller.
Returned(value) == [raised |-> None, value |-> value]
Raised(exception) == [raised |-> exception, value |-> None]

\* A Python bool kept apart from None.
PyBool(b) == IF b THEN "True" ELSE "False"

\* "Can't mortgage if already mortgaged or has houses".
is_mortgageable(player, pos) ==
  /\ pos \notin player.mortgaged
  /\ ~(Get(player.houses, pos, 0) > 0)

\* One entry of the list `mortgageable`; has_monopoly is
\* `group and self.board.has_monopoly(...)`, None for a position without a
\* group.
mortgageable_entry(player, pos) ==
  LET group == Get(POSITION_TO_GROUP, pos, None)
      price == Get(PROPERTY_PRICES, pos, 0)
  IN  [position |-> pos,
       value |-> price \div 2,
       has_monopoly |-> IF group = None THEN None
                        ELSE PyBool(has_monopoly(player.properties, group)),
       group_quality |-> IF group # None THEN Get(GROUP_QUALITY, group, 100)
                         ELSE 0]

\* The list `mortgageable` before the sort; iteration is the order in which
\* `for pos in player.properties` visits the set.
RECURSIVE mortgageable_from(_, _, _)
mortgageable_from(player, iteration, k) ==
  IF k > Len(iteration) THEN <<>>
  ELSE (IF is_mortgageable(player, iteration[k])
        THEN <<mortgageable_entry(player, iteration[k])>> ELSE <<>>)
         \o mortgageable_from(player, iteration, k + 1)

\* The sort compares the keys (has_monopoly, group_quality) as tuples; a
\* None against a bool in the first component has no order.
sort_raises(mortgageable) ==
  \E i, j \in DOMAIN mortgageable :
    (mortgageable[i].has_monopoly = None)
      # (mortgageable[j].has_monopoly = None)

\* The sort key with the monopoly status left out.
key_less_quality_only(a, b) == a.group_quality < b.group_quality

\* Tuple order of the keys: False before True, then the lower quality.
key_less(a, b) ==
  LET rank(e) == IF e.has_monopoly = "True" THEN 1 ELSE 0
  IN  \/ rank(a) < rank(b)
      \/ rank(a) = rank(b) /\ a.group_quality < b.group_quality

\* list.sort is stable: an entry goes behind the entries not above it.
insert_sorted(sorted, e) ==
  LET n == Cardinality({i \in DOMAIN sorted : ~key_less(e, sorted[i])})
  IN  SubSeq(sorted, 1, n) \o <<e>> \o SubSeq(sorted, n + 1, Len(sorted))

RECURSIVE sorted_by_key(_, _)
sorted_by_key(mortgageable, k) ==
  IF k = 0 THEN <<>>
  ELSE insert_sorted(sorted_by_key(mortgageable, k - 1), mortgageable[k])

\* `if raised >= amount_needed: break`
target_met(raised, amount_needed) == raised >= amount_needed

\* "Select properties to mortgage": from the k-th entry on, with `raised`
\* collected so far.
RECURSIVE to_mortgage_from(_, _, _, _)
to_mortgage_from(mortgageable, amount_needed, k, raised) ==
  IF k > Len(mortgageable) \/ target_met(raised, amount_needed) THEN <<>>
  ELSE <<mortgageable[k].position>>
         \o to_mortgage_from(mortgageable, amount_needed, k + 1,
                             raised + mortgageable[k].value)

get_mortgage_decision(self, state, amount_needed, iteration) ==
  LET mortgageable == mortgageable_from(state.my_state, iteration, 1)
  IN  IF sort_raises(mortgageable) THEN Raised(TypeError)
      ELSE Returned(to_mortgage_from(
                      sorted_by_key(mortgageable, Len(mortgageable)),
                      amount_needed, 1, 0))

\* The payoff without the 10% interest.
unmortgage_cost_no_interest(position) ==
  Get(PROPERTY_PRICES, position, 0) \div 2

\* int(price * 0.55): "50% + 10% interest".
unmortgage_cost(position) == Trunc(Get(PROPERTY_PRICES, position, 0), 55, 100)

\* "Only unmortgage if we have good cash reserves".
cannot_afford_unmortgage(self, player, position) ==
  player.cash - unmortgage_cost(position) < self.absolute_min_cash + 100

should_unmortgage(self, state, position) ==
  LET player == state.my_state
      group == Get(POSITION_TO_GROUP, position, None)
  IN  IF position \notin player.mortgaged THEN FALSE
      ELSE IF cannot_afford_unmortgage(self, player, position) THEN FALSE
      ELSE IF group # None /\ has_monopoly(player.properties, group) THEN TRUE
      ELSE FALSE

(***************************************************************************)
(* strategic_ai.py : relative EPT                                          *)
(***************************************************************************)

\* iteration is the order in which the loop of calculate_ept visits the
\* set player.properties.
calculate_property_ept(self, player, num_opponents, iteration) ==
  calculate_ept(player.properties, num_opponents, iteration)

\* The loop `for opp in state.opponents: total_ept += ...` from the k-th
\* opponent on; iteration holds the orders in which the property sets of
\* the acting player (my_state) and of the opponents (opponents, a list)
\* are visited.
RECURSIVE opponents_ept(_, _, _, _, _)
opponents_ept(self, state, k, total_ept, iteration) ==
  CASE k > Len(state.opponents) -> total_ept
    [] k <= Len(state.opponents) /\ IsDouble(total_ept) ->
         opponents_ept(self, state, k + 1,
                       FloatAdd(total_ept,
                                calculate_property_ept(
                                  self, state.opponents[k],
                                  (1 + Len(state.opponents)) - 1,
                                  iteration.opponents[k])),
                       iteration)

my_ept(self, state, iteration) ==
  calculate_property_ept(self, state.my_state, Len(state.opponents),
                         iteration.my_state)

total_ept(self, state, iteration) ==
  opponents_ept(self, state, 1, my_ept(self, state, iteration), iteration)

\* The average taken over the opponents alone.
calculate_relative_ept_over_opponents(self, state, iteration) ==
  LET num_opponents == IF state.opponents = <<>> THEN 1
                       ELSE Len(state.opponents)
      average_ept == FloatDivInt(total_ept(self, state, iteration),
                                 num_opponents)
  IN  FloatSub(my_ept(self, state, iteration), average_ept)

\* my_ept - total_ept / num_players, a double of either sign: its sign
\* (-1, 0, 1) and the double that is its absolute value.
calculate_relative_ept(self, state, iteration) ==
  LET num_players == 1 + Len(state.opponents)
      average_ept == FloatDivInt(total_ept(self, state, iteration),
                                 num_players)
  IN  FloatSub(my_ept(self, state, iteration), average_ept)

(***************************************************************************)
(* The effect of a build.  _try_building leaves the click that builds a    *)
(* house as a TODO; what a build does to the next snapshot is the game's:  *)
(* one more house on the position, the group's house cost off the          *)
(* player's cash, one house fewer in the bank.                             *)
(***************************************************************************)

build_house(state, position) ==
  LET group == Get(POSITION_TO_GROUP, position, None)
      count == Get(state.my_state.houses, position, 0)
  IN  [state EXCEPT
         !.my_state.houses = (position :> count + 1) @@ @,
         !.my_state.cash = @ - Get(HOUSE_COST, group, 100),
         !.available_houses = @ - 1]

(***************************************************************************)
(* Bounds of the explored inputs                                           *)
(***************************************************************************)

CashStep == 100
MaxCashSteps == 5
MaxOpponents == 2

\* The highest current bid an auction is followed to: above every ceiling
\* of the explored snapshots.
MaxAuctionBid == 450

CashLevels == {CashStep * k : k \in 0..MaxCashSteps}

\* Player ids: the extractor names its own player "me" and the opponents
\* "opponent_<panel index>".
MyId == "me"
OpponentIds ==
  <<"opponent_0", "opponent_1", "opponent_2", "opponent_3", "opponent_4">>

\* Subsets of S with at most one element.
AtMostOne(S) == {{}} \cup {{x} : x \in S}

\* The elements of S as a list, ascending or descending.
Ordered(S, order) ==
  ListOf([i \in 1..Cardinality(S) |->
            CHOOSE x \in S :
              IF order = "ascending"
              THEN Cardinality({y \in S : y < x}) = i - 1
              ELSE Cardinality({y \in S : y > x}) = i - 1])

\* The ways in which the property sets of a snapshot were built: elements
\* added in ascending or in descending order; a property that is not in
\* the set (one that meets the least element in a new table, if there is
\* one) added first and discarded before the greatest element is added;
\* the same followed by a copy; the set of a player who held two more
\* properties and gave them up (a set of three elements then has a table
\* of 32 slots); and a set copied at 16 slots while it held two
\* properties more, both meeting its second element there, that element
\* added after the copy (it lies behind the slots of the two) and the two
\* given up.
InsertionOrders ==
  {"ascending", "descending", "discarded", "copied", "grown", "displaced"}

\* The least elements of T, at most the given number of them, ascending.
RECURSIVE LeastOf(_, _)
LeastOf(T, most) ==
  IF most = 0 \/ T = {} THEN <<>>
  ELSE LET least == CHOOSE x \in T : \A y \in T : x <= y
       IN  <<least>> \o LeastOf(T \ {least}, most - 1)

\* The history of the set S built in the given way.
History(S, rule) ==
  LET adds(order) == ListOf([i \in 1..Cardinality(S) |->
                              Add(Ordered(S, order)[i])])
      others == DOMAIN PROPERTY_PRICES \ S
      least == IF S = {} THEN 0 ELSE Ordered(S, "ascending")[1]
      meeting == {x \in others : x % PySet_MINSIZE = least % PySet_MINSIZE}
      stray == Ordered(IF meeting = {} THEN others ELSE meeting,
                       "ascending")[1]
      n == Cardinality(S)
      discarded == <<Add(stray)>> \o SubSeq(adds("ascending"), 1, n - 1)
                     \o <<Discard(stray)>>
                     \o SubSeq(adds("ascending"), IF n = 0 THEN 1 ELSE n, n)
      given_up == LeastOf(others, 2)
      grown == adds("ascending")
                 \o [i \in 1..2 |-> Add(given_up[i])]
                 \o [i \in 1..2 |-> Discard(given_up[i])]
      second == IF n < 2 THEN 0 ELSE Ordered(S, "ascending")[2]
      met == {x \in others :
                x % (2 * PySet_MINSIZE) = second % (2 * PySet_MINSIZE)}
      meets == IF n < 2 THEN <<>> ELSE LeastOf(met, 2)
      displaced == SelectSeq(adds("ascending"),
                             LAMBDA step : n < 2 \/ step # Add(second))
                     \o [i \in DOMAIN meets |-> Add(meets[i])]
                     \o <<Copy>>
                     \o (IF n < 2 THEN <<>> ELSE <<Add(second)>>)
                     \o [i \in DOMAIN meets |-> Discard(meets[i])]
  IN  CASE rule = "ascending" -> adds("ascending")
        [] rule = "descending" -> adds("descending")
        [] rule = "discarded" -> discarded
        [] rule = "copied" -> discarded \o <<Copy>>
        [] rule = "grown" -> grown
        [] rule = "displaced" -> displaced

\* The histories of the sets of a snapshot and of an offer: the sets of the
\* players built in the given way, those of an offer by adding.
TradeInsertion(built, offer) ==
  [my_state |-> built,
   properties_offered |-> History(offer.properties_offered, "ascending"),
   properties_requested |-> History(offer.properties_requested, "ascending")]

\* The orders in which a set can be visited.
Orders(S) ==
  {order \in [1..Cardinality(S) -> S] :
     \A i, j \in 1..Cardinality(S) : i # j => order[i] # order[j]}

\* The orders in which the property sets of the first k opponents can be
\* visited, each set in an order of its own.
RECURSIVE OpponentsVisited(_, _)
OpponentsVisited(state, k) ==
  IF k = 0 THEN {<<>>}
  ELSE {Append(rest, ListOf(order)) :
          rest \in OpponentsVisited(state, k - 1),
          order \in Orders(state.opponents[k].properties)}

\* The orders in which the property sets of a snapshot can be visited: the
\* order of a Python set depends on how the set was built, and every order
\* of every set is taken.
RelativeIterations(state) ==
  {[my_state |-> ListOf(order), opponents |-> opponents] :
     order \in Orders(state.my_state.properties),
     opponents \in OpponentsVisited(state, Len(state.opponents))}

(***************************************************************************)
(* Calls.  Every decision function is a pure function of the snapshot: a   *)
(* call made while no decision is pending records its name, its arguments  *)
(* and its return value and leaves the snapshot and the AI's parameters     *)
(* alone; Return hands the decision to the caller, which may then ask for   *)
(* the next one.                                                            *)
(***************************************************************************)

Idle == "idle"

Call(name, a, r) ==
  /\ op = Idle
  /\ op' = name
  /\ args' = a
  /\ ret' = r
  /\ UNCHANGED <<ai, snapshot>>

Return ==
  /\ op # Idle
  /\ op' = Idle
  /\ args' = <<>>
  /\ ret' = None
  /\ UNCHANGED <<ai, snapshot>>

GetMonopolyQuality ==
  LET properties == snapshot.my_state.properties
  IN  Call("get_monopoly_quality", [properties |-> properties],
           get_monopoly_quality(properties))

HasMonopoly ==
  \E group \in DOMAIN GROUP_PROPERTIES \cup {None} :
    LET owned_positions == snapshot.my_state.properties
    IN  Call("has_monopoly",
             [owned_positions |-> owned_positions, group |-> group],
             has_monopoly(owned_positions, group))

(***************************************************************************)
(* Specification of the valuation functions: the acting player holds any   *)
(* subset of brown, green, dark blue, the utilities and the GO square.     *)
(***************************************************************************)

QualityPositions == {0, 1, 3, 12, 28, 31, 32, 34, 37, 39}

InitQuality ==
  /\ ai = StrategicAI
  /\ \E properties \in SUBSET QualityPositions :
       snapshot = GameState(PlayerState(MyId, 1500, properties), <<>>, MyId)
  /\ op = Idle
  /\ args = <<>>
  /\ ret = None

NextQuality == GetMonopolyQuality \/ HasMonopoly \/ Return

SpecQuality == InitQuality /\ [][NextQuality]_vars

(***************************************************************************)
(* Specification of the purchase decision: the acting player and up to     *)
(* MaxOpponents opponents each hold any subset of the orange group         *)
(* (snapshots in which a position has two owners included: the core does   *)
(* not validate its snapshot), and the player lands on an orange position  *)
(* or on the GO square, priced as PROPERTY_PRICES lists it.                *)
(***************************************************************************)

BuyOwnable == {16, 18, 19}
BuyPositions == {0, 16, 18, 19}

ShouldBuyProperty ==
  \E position \in BuyPositions :
    LET price == Get(PROPERTY_PRICES, position, 0)
    IN  Call("should_buy_property",
             [position |-> position, price |-> price],
             should_buy_property(ai, snapshot, position, price))

InitBuy ==
  /\ ai \in {StrategicAI, [StrategicAI EXCEPT !.smart_blocking = FALSE]}
  /\ \E cash \in CashLevels, properties \in SUBSET BuyOwnable,
        n \in 0..MaxOpponents :
       \E holdings \in [1..n -> SUBSET BuyOwnable] :
         snapshot =
           GameState(PlayerState(MyId, cash, properties),
                     [k \in 1..n |->
                        PlayerState(OpponentIds[k], 500, holdings[k])],
                     MyId)
  /\ op = Idle
  /\ args = <<>>
  /\ ret = None

NextBuy == ShouldBuyProperty \/ Return

SpecBuy == InitBuy /\ [][NextBuy]_vars

(***************************************************************************)
(* Specification of the trade evaluation: the acting player faces two      *)
(* opponents, the second of whom holds nothing; the holdings are those of  *)
(* TradeHoldings.  An offer comes from one of the opponents or from an     *)
(* unknown player, swaps at most one property each way and moves cash      *)
(* either way; the property sets were built in one of the ways of         *)
(* InsertionOrders.                                                        *)
(***************************************************************************)

TradePositions == {1, 3, 37, 39}
UtilityLot == {12, 28}
GreenLot == {31, 32, 34}
FallbackPositions == {1, 6, 8, 21}
TradeOpponents == {OpponentIds[1], OpponentIds[2]}
Stranger == "stranger"

TradeCashLevels == {3 * CashStep}
CashOffered == {0, 2 * CashStep, 3 * CashStep}
CashRequested == {0, 3 * CashStep}

\* The properties the sender of an offer can put on the table: its own,
\* or, for a sender that is no opponent, any an opponent holds.
Offerable(from_player) ==
  IF \E k \in DOMAIN snapshot.opponents :
       snapshot.opponents[k].player_id = from_player
  THEN find_proposer(snapshot, [from_player |-> from_player]).properties
  ELSE UNION {snapshot.opponents[k].properties : k \in DOMAIN snapshot.opponents}

\* evaluate_trade asked on the snapshot, its property sets built in one of
\* the given ways.
EvaluateTradeBuilt(rules) ==
  /\ op = Idle
  /\ \E from_player \in TradeOpponents \cup {Stranger},
        built \in {History(snapshot.my_state.properties, rule) :
                     rule \in rules} :
       \E properties_offered \in AtMostOne(Offerable(from_player)),
          properties_requested \in AtMostOne(snapshot.my_state.properties),
          cash_offered \in CashOffered, cash_requested \in CashRequested :
         LET offer == TradeOffer(from_player, MyId, properties_offered,
                                 properties_requested, cash_offered,
                                 cash_requested)
             insertion == TradeInsertion(built, offer)
         IN  Call("evaluate_trade", [offer |-> offer, insertion |-> insertion],
                  evaluate_trade(ai, snapshot, offer, insertion))

EvaluateTrade == EvaluateTradeBuilt(InsertionOrders)

\* Either the brown and dark blue positions of TradePositions are shared
\* out between the acting player and the first opponent, one of the two
\* holding both utilities and green being nobody's or that opponent's, or
\* the four positions of FallbackPositions (no group can be completed with
\* them) are shared out between the two.
TradeHoldings ==
  {[id \in {MyId} \cup TradeOpponents |->
      {pos \in TradePositions : owner[pos] = id}
        \cup (IF utility = id THEN UtilityLot ELSE {})
        \cup (IF green = id THEN GreenLot ELSE {})] :
     owner \in [TradePositions -> {MyId, OpponentIds[1]}],
     utility \in {MyId, OpponentIds[1]},
     green \in {None, OpponentIds[1]}}
  \cup
  {[id \in {MyId} \cup TradeOpponents |->
      {pos \in FallbackPositions : owner[pos] = id}] :
     owner \in [FallbackPositions -> {MyId, OpponentIds[1]}]}

InitTrade ==
  /\ ai = StrategicAI
  /\ \E cash \in TradeCashLevels, held \in TradeHoldings :
       snapshot =
         GameState(PlayerState(MyId, cash, held[MyId]),
                   [k \in 1..2 |->
                      PlayerState(OpponentIds[k], 500, held[OpponentIds[k]])],
                   OpponentIds[1])
  /\ op = Idle
  /\ args = <<>>
  /\ ret = None

NextTrade == EvaluateTrade \/ Return

SpecTrade == InitTrade /\ [][NextTrade]_vars

(***************************************************************************)
(* Specification of the auction bid: the bidder holds any subset of the    *)
(* orange group, at most one of its properties mortgaged; up to            *)
(* MaxOpponents opponents each hold nothing, one orange position or two    *)
(* (two owners of one position included); an orange position or the GO     *)
(* square is auctioned at one of a few standing bids.                      *)
(***************************************************************************)

AuctionOwnable == {16, 18, 19}
AuctionHoldings == {{}, {16}, {16, 18}, {18, 19}}
AuctionPositions == {0, 16, 19}
AuctionCash == {0, CashStep, CashStep * MaxCashSteps, 6 * CashStep * MaxCashSteps}
CurrentBids == {0, 100, 205, 400}

GetAuctionBid ==
  \E position \in AuctionPositions, current_bid \in CurrentBids :
    Call("get_auction_bid",
         [position |-> position, current_bid |-> current_bid],
         get_auction_bid(ai, snapshot, position, current_bid))

InitAuction ==
  /\ ai \in {StrategicAI, [StrategicAI EXCEPT !.smart_blocking = FALSE]}
  /\ \E cash \in AuctionCash, properties \in SUBSET AuctionOwnable,
        n \in 0..MaxOpponents :
       \E mortgaged \in AtMostOne(properties),
          holdings \in [1..n -> AuctionHoldings] :
         snapshot =
           GameState([PlayerState(MyId, cash, properties)
                        EXCEPT !.mortgaged = mortgaged],
                     [k \in 1..n |->
                        PlayerState(OpponentIds[k], 500, holdings[k])],
                     MyId)
  /\ op = Idle
  /\ args = <<>>
  /\ ret = None

NextAuction == GetAuctionBid \/ Return

SpecAuction == InitAuction /\ [][NextAuction]_vars

(***************************************************************************)
(* Specification of the trade proposals: brown, dark blue and the two      *)
(* utilities are shared out among the acting player and two opponents, and *)
(* the acting player, at any cash level, looks for swaps to propose; the   *)
(* property sets were built in one of the ways of InsertionOrders.         *)
(***************************************************************************)

ProposePositions == TradePositions \cup UtilityLot

\* generate_trade_offers asked on the snapshot, its property sets built in
\* one of the given ways.
GenerateTradeOffersBuilt(rules) ==
  /\ op = Idle
  /\ \E rule \in rules :
       LET insertion ==
             [my_state |-> History(snapshot.my_state.properties, rule)]
       IN  Call("generate_trade_offers", [insertion |-> insertion],
                generate_trade_offers(ai, snapshot, insertion))

GenerateTradeOffers == GenerateTradeOffersBuilt(InsertionOrders)

InitPropose ==
  /\ ai = StrategicAI
  /\ \E cash \in CashLevels,
        owner \in [ProposePositions -> {MyId} \cup TradeOpponents] :
       LET held(id) == {pos \in ProposePositions : owner[pos] = id}
       IN  snapshot =
             GameState(PlayerState(MyId, cash, held(MyId)),
                       [k \in 1..2 |->
                          PlayerState(OpponentIds[k], 500,
                                      held(OpponentIds[k]))],
                       MyId)
  /\ op = Idle
  /\ args = <<>>
  /\ ret = None

NextPropose == GenerateTradeOffers \/ Return

SpecPropose == InitPropose /\ [][NextPropose]_vars

(***************************************************************************)
(* Specification of the building decisions: the acting player holds any    *)
(* subset of brown, orange and the utilities, has houses (or a hotel, 5)   *)
(* on some of its brown positions and on position 16, and the bank has no  *)
(* house, one house or all 32 left.                                        *)
(***************************************************************************)

BuildOwnable == {1, 3, 12, 28, 16, 18, 19}
BuildImprovable == {1, 3, 16}
HouseCounts == {1, 4, 5}
BuildCash == {CashStep, 175, 2 * CashStep, 225, 2 * CashStep * MaxCashSteps}
AvailableHouses == {0, 1, 32}
BuildPositions == {0, 1, 3, 5, 12, 16, 18, 19}

\* The dicts position -> house count with keys among S.
HouseDicts(S) == UNION {[T -> HouseCounts] : T \in SUBSET S}

ShouldBuildHouse ==
  \E position \in BuildPositions :
    Call("should_build_house", [position |-> position],
         should_build_house(ai, snapshot, position))

GetBuildingPriority ==
  Call("get_building_priority", <<>>, get_building_priority(ai, snapshot))

InitBuild ==
  /\ ai = StrategicAI
  /\ \E cash \in BuildCash, properties \in SUBSET BuildOwnable,
        available_houses \in AvailableHouses :
       \E houses \in HouseDicts(properties \cap BuildImprovable) :
         snapshot =
           [GameState([PlayerState(MyId, cash, properties)
                         EXCEPT !.houses = houses],
                      <<PlayerState(OpponentIds[1], 500, {})>>, MyId)
              EXCEPT !.available_houses = available_houses]
  /\ op = Idle
  /\ args = <<>>
  /\ ret = None

NextBuild == ShouldBuildHouse \/ GetBuildingPriority \/ Return

SpecBuild == InitBuild /\ [][NextBuild]_vars

(***************************************************************************)
(* Specification of the jail decision: the acting player holds any subset  *)
(* of brown, the utilities and one railroad, with houses on its brown      *)
(* positions; up to MaxOpponents opponents hold orange, undeveloped or     *)
(* developed to one of a few levels.                                       *)
(***************************************************************************)

JailOwnable == {1, 3, 5, 12, 28}
JailImprovable == {1, 3}
OpponentHouses ==
  {<<>>, (16 :> 1), (16 :> 5), (16 :> 5) @@ (18 :> 5),
   (16 :> 3) @@ (18 :> 3) @@ (19 :> 4)}

ShouldPayJailFee ==
  Call("should_pay_jail_fee", <<>>, should_pay_jail_fee(ai, snapshot))

InitJail ==
  /\ ai = StrategicAI
  /\ \E properties \in SUBSET JailOwnable, n \in 0..MaxOpponents :
       \E houses \in HouseDicts(properties \cap JailImprovable),
          built \in [1..n -> OpponentHouses] :
         snapshot =
           GameState([PlayerState(MyId, 500, properties)
                        EXCEPT !.houses = houses, !.in_jail = TRUE],
                     [k \in 1..n |->
                        [PlayerState(OpponentIds[k], 500, {16, 18, 19})
                           EXCEPT !.houses = built[k]]],
                     MyId)
  /\ op = Idle
  /\ args = <<>>
  /\ ret = None

NextJail == ShouldPayJailFee \/ Return

SpecJail == InitJail /\ [][NextJail]_vars

(***************************************************************************)
(* SpecMortgage: get_mortgage_decision on snapshots whose player owns any  *)
(* subset of the brown pair, a railroad, a utility, an orange property and *)
(* square 0 (no group, no price), with at most one of them mortgaged and   *)
(* the second brown property with or without a house.  The order in which  *)
(* the loop visits the set player.properties is an input of the call.      *)
(***************************************************************************)

MortgageOwnable == {0, 1, 3, 5, 12, 16}
MortgageHouses == {<<>>, (3 :> 0), (3 :> 1)}
AmountsNeeded == {0 - CashStep, 0, 30, CashStep, 2 * CashStep * MaxCashSteps}

GetMortgageDecision ==
  /\ op = Idle
  /\ \E amount_needed \in AmountsNeeded,
        iteration \in Orders(snapshot.my_state.properties) :
       Call("get_mortgage_decision",
            [amount_needed |-> amount_needed, iteration |-> iteration],
            get_mortgage_decision(ai, snapshot, amount_needed, iteration))

InitMortgage ==
  /\ ai = StrategicAI
  /\ \E properties \in SUBSET MortgageOwnable :
       \E mortgaged \in AtMostOne(properties),
          houses \in {h \in MortgageHouses : DOMAIN h \subseteq properties} :
         snapshot =
           GameState([PlayerState(MyId, 500, properties)
                        EXCEPT !.mortgaged = mortgaged, !.houses = houses],
                     <<>>, MyId)
  /\ op = Idle
  /\ args = <<>>
  /\ ret = None

NextMortgage == GetMortgageDecision \/ Return

SpecMortgage == InitMortgage /\ [][NextMortgage]_vars

(***************************************************************************)
(* SpecUnmortgage: should_unmortgage on snapshots whose player owns any    *)
(* subset of the brown pair, an orange property and square 0, any of them  *)
(* mortgaged, with cash on both sides of the reserve test.                 *)
(***************************************************************************)

UnmortgageOwnable == {0, 1, 3, 19}
UnmortgagePositions == {0, 1, 3, 16, 19}
UnmortgageCash ==
  {CashStep, 2 * CashStep, 207, 208, 284, 285, CashStep * MaxCashSteps}

ShouldUnmortgage ==
  \E position \in UnmortgagePositions :
    Call("should_unmortgage", [position |-> position],
         should_unmortgage(ai, snapshot, position))

InitUnmortgage ==
  /\ ai = StrategicAI
  /\ \E properties \in SUBSET UnmortgageOwnable, cash \in UnmortgageCash :
       \E mortgaged \in SUBSET properties :
         snapshot =
           GameState([PlayerState(MyId, cash, properties)
                        EXCEPT !.mortgaged = mortgaged],
                     <<>>, MyId)
  /\ op = Idle
  /\ args = <<>>
  /\ ret = None

NextUnmortgage == ShouldUnmortgage \/ Return

SpecUnmortgage == InitUnmortgage /\ [][NextUnmortgage]_vars

(***************************************************************************)
(* SpecWorth: calculate_net_worth of a player owning any subset of a brown *)
(* property, a railroad, a dark blue property and square 0, at most one of *)
(* them mortgaged, with houses recorded on any of the owned positions.     *)
(***************************************************************************)

WorthOwnable == {0, 1, 5, 39}
WorthHouseCounts == {2, 5}
WorthCash == {0, CashStep * MaxCashSteps}

CalculateNetWorth ==
  Call("calculate_net_worth", [player |-> snapshot.my_state],
       calculate_net_worth(snapshot.my_state))

InitWorth ==
  /\ ai = StrategicAI
  /\ \E properties \in SUBSET WorthOwnable, cash \in WorthCash :
       \E mortgaged \in AtMostOne(properties),
          houses \in
            UNION {[T -> WorthHouseCounts] : T \in SUBSET properties} :
         snapshot =
           GameState([PlayerState(MyId, cash, properties)
                        EXCEPT !.mortgaged = mortgaged, !.houses = houses],
                     <<>>, MyId)
  /\ op = Idle
  /\ args = <<>>
  /\ ret = None

NextWorth == CalculateNetWorth \/ Return

SpecWorth == InitWorth /\ [][NextWorth]_vars

(***************************************************************************)
(* SpecRelative: calculate_relative_ept on snapshots in which the two      *)
(* brown properties, an orange property and the other two orange           *)
(* properties (as one lot) are each unowned or owned by the acting player  *)
(* or by one of up to MaxOpponents opponents, the acting player's first    *)
(* brown property with or without houses.  The order in which the loop of  *)
(* calculate_ept visits each property set is an input of the call: the     *)
(* float sum depends on it (against one opponent the EPT of {3, 16, 19}    *)
(* is 0.8500000000000001 visited as 3, 16, 19 and 0.85 visited as 16, 19,  *)
(* 3).  Against two opponents the EPT of position 1, 0.025 * 2 * 2, is     *)
(* half that of position 3.                                                *)
(***************************************************************************)

RelativeLots == {{1}, {3}, {18}, {16, 19}}
RelativeHouses == {<<>>, (1 :> 3)}

CalculateRelativeEpt ==
  /\ op = Idle
  /\ \E iteration \in RelativeIterations(snapshot) :
       Call("calculate_relative_ept", [iteration |-> iteration],
            calculate_relative_ept(ai, snapshot, iteration))

\* owner[lot]: 0 - nobody, 1 - the acting player, k + 1 - opponent k.
InitRelative ==
  /\ ai = StrategicAI
  /\ \E n \in 0..MaxOpponents :
       \E owner \in [RelativeLots -> 0..(n + 1)] :
         LET owned(w) == UNION {lot \in RelativeLots : owner[lot] = w}
         IN  \E houses \in {h \in RelativeHouses : DOMAIN h \subseteq owned(1)} :
               snapshot =
                 GameState([PlayerState(MyId, 500, owned(1))
                              EXCEPT !.houses = houses],
                           [k \in 1..n |->
                              PlayerState(OpponentIds[k], 500, owned(k + 1))],
                           MyId)
  /\ op = Idle
  /\ args = <<>>
  /\ ret = None

NextRelative == CalculateRelativeEpt \/ Return

SpecRelative == InitRelative /\ [][NextRelative]_vars

(***************************************************************************)
(* SpecBlocking: the purchase decision and the auction bid with smart      *)
(* blocking on and off; the acting player and up to MaxOpponents opponents *)
(* each hold any subset of the orange group (two owners of one position    *)
(* included).                                                              *)
(***************************************************************************)

BlockingCash == {3 * CashStep, CashStep * MaxCashSteps}

InitBlocking ==
  /\ ai \in {StrategicAI, [StrategicAI EXCEPT !.smart_blocking = FALSE]}
  /\ \E cash \in BlockingCash, properties \in SUBSET BuyOwnable,
        n \in 0..MaxOpponents :
       \E holdings \in [1..n -> SUBSET BuyOwnable] :
         snapshot =
           GameState(PlayerState(MyId, cash, properties),
                     [k \in 1..n |->
                        PlayerState(OpponentIds[k], 500, holdings[k])],
                     MyId)
  /\ op = Idle
  /\ args = <<>>
  /\ ret = None

NextBlocking == ShouldBuyProperty \/ GetAuctionBid \/ Return

SpecBlocking == InitBlocking /\ [][NextBlocking]_vars

(***************************************************************************)
(* SpecBuilding: houses built one at a time, each on a position for which  *)
(* should_build_house is true in the snapshot reached so far.  The player  *)
(* holds brown, orange or both (or orange with half of brown); in the      *)
(* first snapshot the counts inside a fully held group are within 1 of     *)
(* each other and at most 4.                                               *)
(***************************************************************************)

BuildingHoldings == {{1, 3}, {16, 18, 19}, {1, 3, 16, 18, 19}, {1, 16, 18, 19}}
BuildingPositions == {1, 3, 5, 16, 18, 19}
BuildingCash == {CashStep, 175, 3 * CashStep, 2 * CashStep * MaxCashSteps}
BuildingBank == {1, 32}

\* The positions of the colour groups the set holds completely.
FullyHeld(properties) ==
  {pos \in properties :
     /\ POSITION_TO_GROUP[pos] \in DOMAIN HOUSE_COST
     /\ \A q \in DOMAIN POSITION_TO_GROUP :
          POSITION_TO_GROUP[q] = POSITION_TO_GROUP[pos] => q \in properties}

\* The counts of a house map lie within 1 of each other inside each group.
EvenlyBuilt(houses) ==
  \A p, q \in DOMAIN houses :
    POSITION_TO_GROUP[p] = POSITION_TO_GROUP[q] => houses[p] - houses[q] <= 1

BuildHouse ==
  /\ op = Idle
  /\ \E position \in BuildingPositions :
       /\ should_build_house(ai, snapshot, position)
       /\ snapshot' = build_house(snapshot, position)
  /\ UNCHANGED <<ai, op, args, ret>>

InitBuilding ==
  /\ ai = StrategicAI
  /\ \E properties \in BuildingHoldings, cash \in BuildingCash,
        bank \in BuildingBank :
       \E houses \in [FullyHeld(properties) -> 0..4] :
         /\ EvenlyBuilt(houses)
         /\ snapshot =
              [GameState([PlayerState(MyId, cash, properties)
                            EXCEPT !.houses = houses],
                         <<PlayerState(OpponentIds[1], 500, {})>>, MyId)
                 EXCEPT !.available_houses = bank]
  /\ op = Idle
  /\ args = <<>>
  /\ ret = None

NextBuilding == BuildHouse

SpecBuilding == InitBuilding /\ [][NextBuilding]_vars

(***************************************************************************)
(* Properties of the valuation functions (SpecQuality)                     *)
(***************************************************************************)

\* The groups all of whose positions are in S.
CompleteGroups(S) ==
  {g \in DOMAIN GROUP_PROPERTIES : Elems(GROUP_PROPERTIES[g]) \subseteq S}

\* The quality of a property set as the decimal sum of the multipliers of
\* its complete groups, in hundredths.
DecimalQuality(S) == SumOver(GROUP_QUALITY, CompleteGroups(S))

\* The doubles x and y differ by less than 2^-50.
FloatClose(x, y) ==
  FloatLess(FloatSub(x, y).magnitude, BigPow2(10, FloatLimbs))

\* C5: get_monopoly_quality(S) is the sum of the quality multipliers of
\* exactly the groups whose positions are all in S: 0 for the empty set,
\* nothing for a partially owned group, quality(A) + quality(B) for the
\* union of two different complete groups A and B; brown alone is 0.85,
\* green alone 1.30, both together 2.15.
C5_QualityIsSumOverCompleteGroups ==
  op = "get_monopoly_quality" =>
    LET S == args.properties
    IN  /\ FloatClose(ret, FloatOfDecimal(DecimalQuality(S), 100))
        /\ (S = {} => ret = FloatZero)
        /\ (CompleteGroups(S) = {} => ret = FloatZero)
        /\ \A A, B \in DOMAIN GROUP_PROPERTIES :
             (A # B /\ S = Elems(GROUP_PROPERTIES[A])
                              \cup Elems(GROUP_PROPERTIES[B]))
               => ret = FloatAdd(
                          get_monopoly_quality(Elems(GROUP_PROPERTIES[A])),
                          get_monopoly_quality(Elems(GROUP_PROPERTIES[B])))
        /\ (S = {1, 3} => ret = FloatOfDecimal(85, 100))
        /\ (S = {31, 32, 34} => ret = FloatOfDecimal(130, 100))
        /\ (S = {1, 3, 31, 32, 34} => ret = FloatOfDecimal(215, 100))

\* Brown and green are both complete and the quality returned is 2.15.
C5_Witness ==
  /\ op = "get_monopoly_quality"
  /\ args.properties = {1, 3, 31, 32, 34}
  /\ ret = FloatOfDecimal(215, 100)

\* C6: has_monopoly(owned, group) is true iff owned contains every member
\* position of the group; for a proper subset of the members it is false.
C6_HasMonopolyIffSuperset ==
  (op = "has_monopoly" /\ args.group \in DOMAIN GROUP_PROPERTIES) =>
    LET members == Elems(GROUP_PROPERTIES[args.group])
        owned == args.owned_positions
    IN  /\ ret = (members \subseteq owned)
        /\ ((owned \subseteq members /\ owned # members) => ret = FALSE)

\* Two of the three green positions, and nothing else, are held: no
\* monopoly.
C6_Witness ==
  /\ op = "has_monopoly"
  /\ args.group = "green"
  /\ args.owned_positions = {31, 32}
  /\ ret = FALSE

(***************************************************************************)
(* Properties of the purchase decision (SpecBuy)                           *)
(***************************************************************************)

\* The arguments and the snapshot of a should_buy_property call.
BuyCash == snapshot.my_state.cash
BuyGroup == Get(POSITION_TO_GROUP, args.position, None)
BuyMembers == Elems(get_group_properties(BuyGroup))

\* The purchase would give the acting player every position of the group.
CompletesOwnGroup ==
  /\ BuyGroup # None
  /\ BuyMembers \subseteq (snapshot.my_state.properties \cup {args.position})

\* Opponent k would hold the full group after acquiring the position.
WouldComplete(k) ==
  /\ BuyGroup # None
  /\ BuyMembers \subseteq
       (snapshot.opponents[k].properties \cup {args.position})

\* Opponent j holds a property of the position's group.
HoldsOfGroup(j) == snapshot.opponents[j].properties \cap BuyMembers # {}

\* C7: should_buy_property never accepts when cash - price is below the
\* reserve of 75, not even a purchase that completes the player's own
\* monopoly or blocks an opponent's.
C7_NeverBuysBelowReserve ==
  (op = "should_buy_property" /\ BuyCash - args.price < 75) => ret = FALSE

\* Cash 100, orange 16 and 18 held, position 19 at 200: the purchase would
\* complete orange and is refused.
C7_Witness ==
  /\ op = "should_buy_property"
  /\ BuyCash - args.price < 75
  /\ CompletesOwnGroup
  /\ snapshot.my_state.properties = {16, 18}
  /\ args.position = 19
  /\ ret = FALSE

\* C8: if cash - price >= 75 and the holdings together with the landed-on
\* position contain the position's whole group, should_buy_property
\* accepts, also when cash - price is below reserve + 100.
C8_BuysToCompleteMonopoly ==
  (op = "should_buy_property" /\ BuyCash - args.price >= 75
     /\ CompletesOwnGroup)
    => ret = TRUE

\* Orange 16 and 18 held, no opponent, position 19 at 200 with cash 300:
\* 100 is left, less than 175, and the purchase is accepted.
C8_Witness ==
  /\ op = "should_buy_property"
  /\ CompletesOwnGroup
  /\ snapshot.opponents = <<>>
  /\ BuyCash - args.price >= 75
  /\ BuyCash - args.price < 75 + 100
  /\ ret = TRUE

\* C9: should_buy_property is monotonic in cash: accepted at one cash
\* level, the same purchase is accepted at every higher cash level.
C9_MonotonicInCash ==
  (op = "should_buy_property" /\ ret = TRUE) =>
    \A cash \in CashLevels :
      cash > BuyCash =>
        should_buy_property(ai, [snapshot EXCEPT !.my_state.cash = cash],
                            args.position, args.price)

\* A purchase accepted by the default rule alone (nothing held by anybody)
\* at a cash level that is not the highest one.
C9_Witness ==
  /\ op = "should_buy_property"
  /\ ret = TRUE
  /\ BuyGroup # None
  /\ snapshot.my_state.properties = {}
  /\ \A k \in DOMAIN snapshot.opponents :
       snapshot.opponents[k].properties = {}
  /\ \E cash \in CashLevels : cash > BuyCash

KnownProposer ==
  \E k \in DOMAIN snapshot.opponents :
    snapshot.opponents[k].player_id = args.offer.from_player
Proposer ==
  snapshot.opponents[CHOOSE k \in DOMAIN snapshot.opponents :
    snapshot.opponents[k].player_id = args.offer.from_player]
NetCash == args.offer.cash_offered - args.offer.cash_requested
CashAfter == snapshot.my_state.cash + NetCash
PropsSelfBefore == snapshot.my_state.properties
PropsSelfAfter ==
  (PropsSelfBefore \ args.offer.properties_requested)
    \cup args.offer.properties_offered
PropsOtherAfter ==
  (Proposer.properties \ args.offer.properties_offered)
    \cup args.offer.properties_requested
Q_self == DecimalQuality(PropsSelfAfter)
Q_other == DecimalQuality(PropsOtherAfter)
SelfGains == Q_self > DecimalQuality(PropsSelfBefore)
OtherGains == Q_other > DecimalQuality(Proposer.properties)
PassesChecks == CashAfter >= 75 /\ KnownProposer

\* C1: an offer that passes the cash-floor and known-proposer checks and
\* raises a side's monopoly quality is decided, in this order: reject if
\* Q_other > 1.40 Q_self; else accept if Q_self >= 0.85 Q_other; else, if
\* the proposer gains a monopoly and the acting player does not, accept iff
\* the net cash received exceeds 200; else accept.  (The products and the
\* comparisons are those of the decimal numbers.)
C1_QualityFilterOrder ==
  (op = "evaluate_trade" /\ PassesChecks /\ (SelfGains \/ OtherGains)) =>
    ret = IF 100 * Q_other > 140 * Q_self THEN FALSE
          ELSE IF 100 * Q_self >= 85 * Q_other THEN TRUE
          ELSE IF OtherGains /\ ~SelfGains THEN NetCash > 200
          ELSE TRUE

\* C2: evaluate_trade rejects whenever the cash after the trade is below
\* the reserve of 75 or the sender of the offer is none of the opponents,
\* whatever properties the offer exchanges.
C2_RejectsBrokeOrUnknown ==
  (op = "evaluate_trade" /\ (CashAfter < 75 \/ ~KnownProposer))
    => ret = FALSE

\* An offer of a property and cash from an unknown sender is rejected.
C2_Witness ==
  /\ op = "evaluate_trade"
  /\ ~KnownProposer
  /\ CashAfter >= 75
  /\ NetCash > 200
  /\ args.offer.properties_offered # {}
  /\ ret = FALSE

\* C3: an offer after which the proposer's monopoly quality has increased
\* while the acting player holds no complete group is rejected, whatever
\* cash it carries.
C3_RejectsOneSidedMonopoly ==
  (op = "evaluate_trade" /\ KnownProposer /\ OtherGains /\ Q_self = 0)
    => ret = FALSE

\* The proposer completes a group, the acting player holds none, and even
\* 300 in cash does not buy the trade.
C3_Witness ==
  /\ op = "evaluate_trade"
  /\ PassesChecks
  /\ OtherGains
  /\ Q_self = 0
  /\ NetCash > 200
  /\ ret = FALSE

\* The EPT of a set of properties against n opponents as the number the
\* tables give, in ten-thousandths: landing probability times rent times n,
\* the rent of level 1 where the whole group is in the set and of level 0
\* otherwise.
DecimalEpt(properties, n) ==
  LET known == properties \cap DOMAIN PROPERTY_PRICES
      term == [pos \in known |->
                 Get(LANDING_PROBABILITIES, pos, 250)
                   * get_rent(pos,
                              IF has_monopoly(properties,
                                              Get(POSITION_TO_GROUP, pos, None))
                              THEN 1 ELSE 0)
                   * n]
  IN  SumOver(term, known)

\* C4: when the offer passes both checks and neither side's quality
\* increases, it is accepted iff the acting player's EPT over the
\* post-trade set exceeds the EPT over the pre-trade set, or the two are
\* equal and the net cash received is positive.
C4_EptFallback ==
  (op = "evaluate_trade" /\ PassesChecks /\ ~SelfGains /\ ~OtherGains) =>
    LET n == Len(snapshot.opponents)
        ept_before == DecimalEpt(PropsSelfBefore, n)
        ept_after == DecimalEpt(PropsSelfAfter, n)
    IN  ret = (ept_after > ept_before \/
               (ept_after = ept_before /\ NetCash > 0))

(***************************************************************************)
(* Properties of the auction bid (SpecAuction)                             *)
(***************************************************************************)

AucPlayer == snapshot.my_state
AucPrice == auction_price(args.position)
AucGroup == Get(POSITION_TO_GROUP, args.position, None)
AucCeiling == auction_ceiling(ai, snapshot, args.position)

\* The holdings of the bidder and of every opponent, and whether no
\* position appears in two of them.
AllHoldings ==
  <<snapshot.my_state.properties>>
    \o [k \in DOMAIN snapshot.opponents |-> snapshot.opponents[k].properties]

DisjointOwnership ==
  \A i, j \in DOMAIN AllHoldings :
    i # j => AllHoldings[i] \cap AllHoldings[j] = {}

\* The position's group is a real group all of whose other positions the
\* bidder holds.
AucCompletesOwn ==
  /\ AucGroup # None
  /\ Elems(GROUP_PROPERTIES[AucGroup]) \ {args.position}
       \subseteq AucPlayer.properties

\* C11: get_auction_bid passes (returns 0) exactly when the clamped ceiling
\* does not exceed the current bid; otherwise it returns a bid above the
\* current bid, at most 10 above it, and at most the clamped ceiling.
C11_PassOrRaise ==
  op = "get_auction_bid" =>
    /\ args.current_bid >= 0
    /\ (ret = 0 <=> AucCeiling <= args.current_bid)
    /\ (ret # 0 =>
          /\ args.current_bid < ret
          /\ ret <= args.current_bid + 10
          /\ ret <= AucCeiling)

\* A bid cut short by the ceiling: less than 10 above the current bid.
C11_Witness ==
  /\ op = "get_auction_bid"
  /\ ret # 0
  /\ ret = AucCeiling
  /\ ret < args.current_bid + 10

\* The face price times 1.05 times 1.5, each product truncated.
AucOwnTarget == (((AucPrice * 105) \div 100) * 15) \div 10

AuctionPrices == {PROPERTY_PRICES[p] : p \in DOMAIN PROPERTY_PRICES} \cup {100}

\* The elements of a finite set of integers in increasing order.
RECURSIVE Ascending(_)
Ascending(S) ==
  IF S = {} THEN <<>>
  ELSE LET least == CHOOSE x \in S : \A y \in S : x <= y
       IN  <<least>> \o Ascending(S \ {least})

AuctionPriceList == Ascending(AuctionPrices)

\* The ceilings of the pending call had the position's face price been
\* each of the board's prices, in increasing order of price: the
\* adjustments and the bid room are those of the call.
AucCeilingAt ==
  LET own == completes_own_monopoly(AucPlayer, args.position, AucGroup)
      blocking == blocking_bonus_applies(ai, snapshot, args.position, AucGroup)
      room == affordable(ai, AucPlayer)
  IN  [i \in DOMAIN AuctionPriceList |->
         bid_ceiling(ai, AuctionPriceList[i], own, blocking, room)]

\* C13: with the premium, the own-monopoly and blocking adjustments and the
\* bid room of a call held fixed, the ceiling is non-decreasing in the face
\* price: along the board's prices in increasing order, no ceiling is lower
\* than the one before it (and the call's own ceiling is the one of its
\* position's price).
C13_CeilingMonotoneInPrice ==
  op = "get_auction_bid" =>
    LET ceiling == AucCeilingAt
    IN  /\ \E i \in DOMAIN AuctionPriceList :
             /\ AuctionPriceList[i] = AucPrice
             /\ ret = next_bid(ceiling[i], args.current_bid)
        /\ \A i \in 1..(Len(AuctionPriceList) - 1) :
             ceiling[i] <= ceiling[i + 1]

\* A call in which a dearer position raises the ceiling and a still dearer
\* one no longer does (the bid room caps it).
C13_Witness ==
  /\ op = "get_auction_bid"
  /\ LET ceiling == AucCeilingAt
     IN  \E i \in 1..(Len(AuctionPriceList) - 2) :
           /\ ceiling[i] < ceiling[i + 1]
           /\ ceiling[i + 1] = ceiling[i + 2]
           /\ ceiling[i + 1] > 0

\* cash + (min(400, trunc(0.15 x net worth)) - mortgage debt) - 75
AucMeans ==
  LET worth == calculate_net_worth(AucPlayer)
      cap == IF (15 * worth) \div 100 < 400 THEN (15 * worth) \div 100 ELSE 400
      debt == SumOver([p \in AucPlayer.mortgaged |-> PROPERTY_PRICES[p] \div 2],
                      AucPlayer.mortgaged)
  IN  AucPlayer.cash + (cap - debt) - 75

\* C14: the clamped ceiling never exceeds cash + (min(400, trunc(0.15 x net
\* worth)) - sum over the mortgaged positions of price div 2) - 75, and no
\* non-zero bid exceeds it either.
C14_CeilingWithinMeans ==
  op = "get_auction_bid" =>
    /\ AucCeiling <= AucMeans
    /\ (ret # 0 => ret <= AucMeans)

\* A bid made at exactly the bidder's means, with a property mortgaged.
C14_Witness ==
  /\ op = "get_auction_bid"
  /\ AucPlayer.mortgaged # {}
  /\ ret # 0
  /\ ret = AucMeans

\* The ceiling before the clamp, and the base ceiling.
AucUnclamped ==
  unclamped_ceiling(ai, AucPrice,
                    completes_own_monopoly(AucPlayer, args.position, AucGroup),
                    blocking_bonus_applies(ai, snapshot, args.position,
                                           AucGroup))
AucBase == (AucPrice * 105) \div 100

\* C15: in a snapshot where no position is owned by two players the
\* ceiling before the clamp is the base ceiling, the base times 1.5 or the
\* base times 1.3, never the base times 1.5 times 1.3: the own-monopoly and
\* the blocking multiplier are not both applied.
C15_MultipliersExclusive ==
  op = "get_auction_bid" /\ DisjointOwnership =>
    /\ AucUnclamped \in {AucBase, (AucBase * 15) \div 10, (AucBase * 13) \div 10}
    /\ AucUnclamped # (((AucBase * 15) \div 10) * 13) \div 10
    /\ ~(/\ completes_own_monopoly(AucPlayer, args.position, AucGroup)
         /\ blocking_bonus_applies(ai, snapshot, args.position, AucGroup))

\* The blocking multiplier applied for a bidder that holds a position of
\* the group itself, nothing being owned twice.
C15_Witness ==
  /\ op = "get_auction_bid"
  /\ DisjointOwnership
  /\ AucGroup # None
  /\ \E p \in AucPlayer.properties : Get(POSITION_TO_GROUP, p, None) = AucGroup
  /\ AucUnclamped = (AucBase * 13) \div 10

(***************************************************************************)
(* Properties of the trade proposals (SpecPropose)                         *)
(***************************************************************************)

\* The offer as its recipient would make it: the parties, the properties
\* and the cash of the two sides exchanged.
Mirror(O) ==
  [from_player |-> O.to_player, to_player |-> O.from_player,
   properties_offered |-> O.properties_requested,
   properties_requested |-> O.properties_offered,
   cash_offered |-> O.cash_requested, cash_requested |-> O.cash_offered]

\* The histories of the sets of the mirror of a returned offer: the acting
\* player's set as it was built, the offer's sets of one element each.
MirrorInsertion(O) ==
  [my_state |-> args.insertion.my_state,
   properties_offered |-> History(O.properties_requested, "ascending"),
   properties_requested |-> History(O.properties_offered, "ascending")]

\* C16: the acting player would accept the mirror of every offer that
\* generate_trade_offers returns, and carrying out a returned offer leaves
\* the acting player at least the reserve of 75 in cash.
C16_MirrorAccepted ==
  op = "generate_trade_offers" =>
    \A i \in DOMAIN ret :
      /\ evaluate_trade(ai, snapshot, Mirror(ret[i]),
                        MirrorInsertion(ret[i]))
      /\ snapshot.my_state.cash - ret[i].cash_offered
           + ret[i].cash_requested >= 75

\* A proposal in which the acting player pays cash, returned next to
\* nothing else or to other proposals.
C16_Witness ==
  /\ op = "generate_trade_offers"
  /\ \E i \in DOMAIN ret :
       /\ ret[i].cash_offered > 0
       /\ snapshot.my_state.cash - ret[i].cash_offered < 2 * 75

\* The face prices of the property a returned offer gives and of the one
\* it asks for.
GivenPrice(O) ==
  PROPERTY_PRICES[CHOOSE p \in O.properties_offered : TRUE]
AskedPrice(O) ==
  PROPERTY_PRICES[CHOOSE p \in O.properties_requested : TRUE]

OneForOne(O) ==
  /\ Cardinality(O.properties_offered) = 1
  /\ Cardinality(O.properties_requested) = 1

\* C17 as stated: every returned offer swaps one property for one, and the
\* absolute difference of their face prices is paid to the party that
\* gives up the cheaper property: requested by the acting player when it
\* gives the cheaper one, offered by it when it gives the dearer one.
C17_Original ==
  op = "generate_trade_offers" =>
    \A i \in DOMAIN ret :
      /\ OneForOne(ret[i])
      /\ (GivenPrice(ret[i]) <= AskedPrice(ret[i]) =>
            /\ ret[i].cash_requested = AskedPrice(ret[i]) - GivenPrice(ret[i])
            /\ ret[i].cash_offered = 0)
      /\ (GivenPrice(ret[i]) >= AskedPrice(ret[i]) =>
            /\ ret[i].cash_offered = GivenPrice(ret[i]) - AskedPrice(ret[i])
            /\ ret[i].cash_requested = 0)

\* C17: every returned offer swaps one property for one, and the absolute
\* difference of their face prices is paid by the party that gives up the
\* cheaper property to the party that gives up the dearer one: offered by
\* the acting player when it gives the cheaper one, requested by it when it
\* gives the dearer one; at most one of the two amounts is non-zero.
C17_CashBalancesSwap ==
  op = "generate_trade_offers" =>
    \A i \in DOMAIN ret :
      /\ OneForOne(ret[i])
      /\ (GivenPrice(ret[i]) <= AskedPrice(ret[i]) =>
            /\ ret[i].cash_offered = AskedPrice(ret[i]) - GivenPrice(ret[i])
            /\ ret[i].cash_requested = 0)
      /\ (GivenPrice(ret[i]) >= AskedPrice(ret[i]) =>
            /\ ret[i].cash_requested = GivenPrice(ret[i]) - AskedPrice(ret[i])
            /\ ret[i].cash_offered = 0)

\* Proposals of both directions returned by one call: one giving the
\* cheaper property, one giving the dearer.
C17_Witness ==
  /\ op = "generate_trade_offers"
  /\ \E i, j \in DOMAIN ret :
       /\ GivenPrice(ret[i]) < AskedPrice(ret[i])
       /\ ret[i].cash_offered > 0
       /\ GivenPrice(ret[j]) > AskedPrice(ret[j])
       /\ ret[j].cash_requested > 0

(***************************************************************************)
(* Properties of the building decisions (SpecBuild)                        *)
(***************************************************************************)

ColourGroups ==
  {"brown", "lightBlue", "pink", "orange", "red", "yellow", "green",
   "darkBlue"}

BldPlayer == snapshot.my_state
BldGroup == Get(POSITION_TO_GROUP, args.position, None)

\* The house count of a position of the acting player.
BldCount(pos) ==
  IF pos \in DOMAIN BldPlayer.houses THEN BldPlayer.houses[pos] ELSE 0

\* What C18 asks of the group and the cash: a colour group, held in full,
\* the house cost leaving 75 + 50, and no position of the group with fewer
\* houses than this one.
BldGroupReady ==
  /\ BldGroup \in ColourGroups
  /\ Elems(GROUP_PROPERTIES[BldGroup]) \subseteq BldPlayer.properties
  /\ BldPlayer.cash - HOUSE_COST[BldGroup] >= 75 + 50
  /\ \A p \in Elems(GROUP_PROPERTIES[BldGroup]) :
       BldCount(args.position) <= BldCount(p)

\* C18 as stated: should_build_house is true iff the group is a colour
\* group held in full, available_houses is non-zero, the cost leaves
\* 75 + 50, the position is not ahead of its group, and its house count is
\* below 5.
C18_Original ==
  op = "should_build_house" =>
    (ret <=> /\ BldGroupReady
             /\ snapshot.available_houses # 0
             /\ BldCount(args.position) < 5)

\* C18: should_build_house is true iff the group is a colour group held in
\* full, available_houses is above zero, the cost leaves 75 + 50, the
\* position is not ahead of its group, and its house count is below 4.
C18_BuildableIff ==
  op = "should_build_house" =>
    (ret <=> /\ BldGroupReady
             /\ snapshot.available_houses > 0
             /\ BldCount(args.position) < 4)

\* A position with four houses, refused although everything else allows
\* building.
C18_Witness ==
  /\ op = "should_build_house"
  /\ BldGroupReady
  /\ snapshot.available_houses > 0
  /\ BldCount(args.position) = 4
  /\ ret = FALSE

\* The order C19 lists the groups in, and a position's place in it.
ClaimedOrder ==
  <<"orange", "red", "darkBlue", "yellow", "green", "pink", "lightBlue",
    "brown">>

Rank(pos) ==
  CHOOSE i \in DOMAIN ClaimedOrder : ClaimedOrder[i] = POSITION_TO_GROUP[pos]

BoardPositions == 0..39

\* C19: get_building_priority returns exactly the positions of the board
\* for which should_build_house is true, each once, the groups in the order
\* orange, red, darkBlue, yellow, green, pink, lightBlue, brown; every
\* listed orange position comes before every listed brown one.
C19_PriorityList ==
  op = "get_building_priority" =>
    /\ \A i, j \in DOMAIN ret : i # j => ret[i] # ret[j]
    /\ Elems(ret) =
         {pos \in BoardPositions : should_build_house(ai, snapshot, pos)}
    /\ \A i, j \in DOMAIN ret : i < j => Rank(ret[i]) <= Rank(ret[j])
    /\ \A i, j \in DOMAIN ret :
         (POSITION_TO_GROUP[ret[i]] = "orange"
            /\ POSITION_TO_GROUP[ret[j]] = "brown") => i < j

\* The list of the test: orange and brown both held and buildable.
C19_Witness ==
  /\ op = "get_building_priority"
  /\ \E i, j \in DOMAIN ret :
       /\ POSITION_TO_GROUP[ret[i]] = "orange"
       /\ POSITION_TO_GROUP[ret[j]] = "brown"
  /\ Len(ret) = 5

(***************************************************************************)
(* Properties of the jail decision (SpecJail)                              *)
(***************************************************************************)

\* The houses on the board: the acting player's and every opponent's.
JailHouses ==
  SumOver(snapshot.my_state.houses, DOMAIN snapshot.my_state.houses)
    + SumOver([k \in DOMAIN snapshot.opponents |->
                 SumOver(snapshot.opponents[k].houses,
                         DOMAIN snapshot.opponents[k].houses)],
              DOMAIN snapshot.opponents)

JailHoldsGroup ==
  \E group \in DOMAIN GROUP_PROPERTIES :
    Elems(GROUP_PROPERTIES[group]) \subseteq snapshot.my_state.properties

\* C20: should_pay_jail_fee is true iff the acting player holds every
\* position of some group or more than 10 houses stand on the board (its
\* own and the opponents'); with no complete group and at most 10 houses it
\* is false.
C20_PayIffMonopolyOrLate ==
  op = "should_pay_jail_fee" =>
    /\ (ret <=> (JailHoldsGroup \/ JailHouses > 10))
    /\ (~JailHoldsGroup /\ JailHouses <= 10 => ret = FALSE)

\* No complete group and exactly 10 houses, the acting player's and an
\* opponent's together: the fee is not paid.
C20_Witness ==
  /\ op = "should_pay_jail_fee"
  /\ ~JailHoldsGroup
  /\ snapshot.my_state.houses # <<>>
  /\ JailHouses = 10
  /\ ret = FALSE

(***************************************************************************)
(* Properties of the mortgage decision (SpecMortgage)                      *)
(***************************************************************************)

MdPlayer == snapshot.my_state

\* The positions that may be mortgaged: owned, not mortgaged, house-free.
MdCandidates ==
  {pos \in MdPlayer.properties :
     pos \notin MdPlayer.mortgaged /\ Get(MdPlayer.houses, pos, 0) = 0}

\* The half-price value of a position.
MdValue(pos) == Get(PROPERTY_PRICES, pos, 0) \div 2

\* The player holds every position of the group of pos.
MdGroupHeld(pos) ==
  /\ pos \in DOMAIN POSITION_TO_GROUP
  /\ \A q \in DOMAIN POSITION_TO_GROUP :
       POSITION_TO_GROUP[q] = POSITION_TO_GROUP[pos]
         => q \in MdPlayer.properties

\* The quality of the group of a property.
MdQuality(pos) == GROUP_QUALITY[POSITION_TO_GROUP[pos]]

\* The call returned a list (it did not raise).
MdReturned == op = "get_mortgage_decision" /\ ret.raised = None

\* The sum of the values of the first k positions of a list.
RECURSIVE MdRaised(_, _)
MdRaised(list, k) ==
  IF k = 0 THEN 0 ELSE MdRaised(list, k - 1) + MdValue(list[k])

\* C21: a returned list holds only owned, unmortgaged, house-free
\* positions, each at most once; a property of a completely held group is
\* returned only if every candidate outside such a group is returned too,
\* and within the same monopoly status no candidate is skipped while one of
\* a higher-quality group is returned.
C21_NonMonopolyFirst ==
  MdReturned =>
    LET returned == Elems(ret.value)
        skipped == MdCandidates \ returned
    IN  /\ returned \subseteq MdCandidates
        /\ Cardinality(returned) = Len(ret.value)
        /\ \A p \in returned :
             MdGroupHeld(p) =>
               \A c \in MdCandidates : ~MdGroupHeld(c) => c \in returned
        /\ \A c \in skipped, p \in returned :
             (/\ c \in DOMAIN POSITION_TO_GROUP
              /\ p \in DOMAIN POSITION_TO_GROUP
              /\ MdGroupHeld(c) = MdGroupHeld(p))
               => ~(MdQuality(c) < MdQuality(p))

\* A list with a property outside a complete group followed by one of the
\* complete brown pair, the other brown property left out.
C21_Witness ==
  /\ MdReturned
  /\ \E p \in Elems(ret.value) : MdGroupHeld(p)
  /\ \E p \in Elems(ret.value) : ~MdGroupHeld(p)
  /\ \E c \in MdCandidates \ Elems(ret.value) : MdGroupHeld(c)

\* C22: get_mortgage_decision returns a list that stops at the first point
\* the target is met: reachable target - the returned values sum to at
\* least the amount and without the last position to less; unreachable
\* target - all candidates; amount <= 0 - the empty list.
C22_StopsAtTarget ==
  op = "get_mortgage_decision" =>
    /\ ret.raised = None
    /\ LET list == ret.value
           amount == args.amount_needed
           reachable ==
             SumOver([pos \in MdCandidates |-> MdValue(pos)], MdCandidates)
       IN  /\ amount <= 0 => list = <<>>
           /\ reachable >= amount =>
                /\ MdRaised(list, Len(list)) >= amount
                /\ list # <<>> => MdRaised(list, Len(list) - 1) < amount
           /\ reachable < amount => Elems(list) = MdCandidates

(***************************************************************************)
(* Properties of should_unmortgage (SpecUnmortgage)                        *)
(***************************************************************************)

\* 55% of the face price, truncated.
UnmPayoff == (Get(PROPERTY_PRICES, args.position, 0) * 55) \div 100

\* C23: should_unmortgage is false for a position that is not mortgaged and
\* for one whose payoff (55% of the face price, truncated) would leave cash
\* below 75 + 100; for a mortgaged, affordable position of a completely
\* held group it is true.
C23_UnmortgageTests ==
  op = "should_unmortgage" =>
    LET pledged == args.position \in MdPlayer.mortgaged
        enough == MdPlayer.cash - UnmPayoff >= 75 + 100
    IN  /\ ~pledged => ret = FALSE
        /\ ~enough => ret = FALSE
        /\ (pledged /\ enough /\ MdGroupHeld(args.position))
             => ret = TRUE

\* A mortgaged property of a complete group paid off with exactly the
\* reserve and buffer left.
C23_Witness ==
  /\ op = "should_unmortgage"
  /\ ret = TRUE
  /\ MdPlayer.cash - UnmPayoff = 75 + 100

(***************************************************************************)
(* Properties of calculate_net_worth (SpecWorth)                           *)
(***************************************************************************)

\* The house cost of the group of a listed position; a group without a
\* listed house cost (railroads, utilities) counts 100 a house.
WorthHouseCost(pos) ==
  LET group == POSITION_TO_GROUP[pos]
  IN  IF group \in DOMAIN HOUSE_COST THEN HOUSE_COST[group] ELSE 100

\* What one owned position adds to the net worth.
WorthShare(player, pos) ==
  IF pos \notin DOMAIN PROPERTY_PRICES THEN 0
  ELSE IF pos \in player.mortgaged THEN PROPERTY_PRICES[pos] \div 2
  ELSE PROPERTY_PRICES[pos]
         + Get(player.houses, pos, 0) * WorthHouseCost(pos)

\* C24: calculate_net_worth is cash plus, for each owned position, half the
\* price if it is mortgaged and otherwise the price plus the house count
\* times the group's house cost; houses on a mortgaged position and an
\* owned position without a listed price add nothing.
C24_NetWorth ==
  op = "calculate_net_worth" =>
    ret = args.player.cash
            + SumOver([pos \in args.player.properties |->
                         WorthShare(args.player, pos)],
                      args.player.properties)

\* A player with houses on a mortgaged property, with houses on an
\* unmortgaged one and with square 0.
C24_Witness ==
  /\ op = "calculate_net_worth"
  /\ 0 \in args.player.properties
  /\ \E pos \in args.player.mortgaged : Get(args.player.houses, pos, 0) > 0
  /\ \E pos \in args.player.properties \ args.player.mortgaged :
       pos # 0 /\ Get(args.player.houses, pos, 0) > 0

(***************************************************************************)
(* Properties of calculate_relative_ept (SpecRelative)                     *)
(***************************************************************************)

RelOpponents == Len(snapshot.opponents)
RelMine == DecimalEpt(snapshot.my_state.properties, RelOpponents)
RelSum ==
  RelMine
    + SumOver([k \in 1..RelOpponents |->
                 DecimalEpt(snapshot.opponents[k].properties, RelOpponents)],
              1..RelOpponents)

\* The own EPT less the average of all players as the number the tables
\* give: RelExcess / RelScale, RelExcess of either sign.
RelExcess == (RelOpponents + 1) * RelMine - RelSum
RelScale == 10000 * (RelOpponents + 1)

\* The natural number k < 2^28 as a digit sequence.
BigOfNat(k) ==
  ListOf([i \in 1..FloatLimbs |->
            IF i = 1 THEN k % LimbBase
            ELSE IF i = 2 THEN k \div LimbBase
            ELSE 0])

\* |ret| * RelScale and |RelExcess|, both times 2^70, and 2^-30 * RelScale
\* on the same scale.
RelReturned == BigMul(ret.magnitude, BigOfNat(RelScale))
RelDecimal ==
  Digits(BigOfNat(IF RelExcess < 0 THEN 0 - RelExcess ELSE RelExcess),
         0 - FractionLimbs, 2 * FloatLimbs)
RelTolerance == BigMul(BigPow2(40, FloatLimbs), BigOfNat(RelScale))

C27_NonPropertyPasses ==
  (/\ op = "get_auction_bid"
   /\ args.position \notin DOMAIN POSITION_TO_GROUP
   /\ args.position \notin DOMAIN PROPERTY_PRICES)
    => ret = 0

\* The AI with smart blocking switched the other way.
BlkOtherSetting == [ai EXCEPT !.smart_blocking = ~ai.smart_blocking]

\* The positions of the group of the position asked about (none for a
\* square without a group).
BlkGroupPositions ==
  IF args.position \notin DOMAIN POSITION_TO_GROUP THEN {}
  ELSE {q \in DOMAIN POSITION_TO_GROUP :
          POSITION_TO_GROUP[q] = POSITION_TO_GROUP[args.position]}

\* Opponent k would hold the whole group with the position.
BlkCompletes(k) ==
  BlkGroupPositions \subseteq snapshot.opponents[k].properties \cup {args.position}

\* The opponents other than k that hold part of the group but not the
\* position.
BlkOthers(k) ==
  {j \in DOMAIN snapshot.opponents \ {k} :
     /\ args.position \notin snapshot.opponents[j].properties
     /\ snapshot.opponents[j].properties \cap BlkGroupPositions # {}}

\* C28: in a snapshot in which no position is owned by two players,
\* should_buy_property and get_auction_bid return the same with smart
\* blocking on as with it off, and an opponent that would complete a group
\* with the position has no other blocker beside it.
C28_SmartBlockingNeutral ==
  DisjointOwnership =>
    /\ op = "should_buy_property" =>
         /\ ret = should_buy_property(BlkOtherSetting, snapshot,
                                      args.position, args.price)
         /\ \A k \in DOMAIN snapshot.opponents :
              BlkCompletes(k) => BlkOthers(k) = {}
    /\ op = "get_auction_bid" =>
         /\ ret = get_auction_bid(BlkOtherSetting, snapshot, args.position,
                                  args.current_bid)
         /\ \A k \in DOMAIN snapshot.opponents :
              BlkCompletes(k) => BlkOthers(k) = {}

\* Smart blocking on, nothing owned twice, two opponents with orange
\* property of which one would complete the group: a purchase accepted
\* that the cash buffer alone would decline.
C28_Witness ==
  /\ op = "should_buy_property"
  /\ ai.smart_blocking
  /\ DisjointOwnership
  /\ Len(snapshot.opponents) = 2
  /\ \A k \in 1..2 : snapshot.opponents[k].properties # {}
  /\ \E k \in 1..2 : BlkCompletes(k)
  /\ snapshot.my_state.properties = {}
  /\ snapshot.my_state.cash - args.price < 75 + 100
  /\ ret = TRUE

(***************************************************************************)
(* Successive bids in one auction (SpecAuction)                            *)
(*                                                                         *)
(* The auction is the one that follows the call of the state: the snapshot *)
(* and the position stay, the current bid never falls, and a bid of the    *)
(* agent is the current bid afterwards.  Its later calls are calls of      *)
(* get_auction_bid at the current bids such an auction can come to.        *)
(***************************************************************************)

\* The answer of the agent at another current bid of the same auction.
AuctionBidAt(current_bid) ==
  get_auction_bid(ai, snapshot, args.position, current_bid)

\* The current bid the call of the state leaves behind.
BidAfterCall == IF ret # 0 THEN ret ELSE args.current_bid

\* The steps by which the other bidders raise (the +2, +10 and +100 of the
\* page), and no raise.
Raises == {0, 2, 10, 100}

\* The current bids the next calls of the auction can be asked at: the bid
\* the call leaves behind, raised up to twice by the others, and the
\* highest bid followed.
LaterBids ==
  {later \in {BidAfterCall + first + second : first, second \in Raises} :
     later <= MaxAuctionBid}
    \cup {MaxAuctionBid}

\* From the given current bid on, with the others raising by the same step
\* after every bid of the agent, the agent passes after at most the given
\* number of bids.  The ceiling of the position is that of the call (no
\* argument of it changes with the current bid) and is handed down.
RECURSIVE PassesWithin(_, _, _, _)
PassesWithin(max_bid, current_bid, bids, raise) ==
  LET our_bid == next_bid(max_bid, current_bid)
  IN  \/ our_bid = 0
      \/ /\ bids > 0
         /\ our_bid > current_bid
         /\ PassesWithin(max_bid, our_bid + raise, bids - 1, raise)

\* The bids the agent places when nobody else raises, from the given
\* current bid on (at most the given number of them).
RECURSIVE BidsPlaced(_, _, _)
BidsPlaced(max_bid, current_bid, most) ==
  LET our_bid == next_bid(max_bid, current_bid)
  IN  IF our_bid = 0 \/ most = 0 THEN 0
      ELSE 1 + BidsPlaced(max_bid, our_bid, most - 1)

\* C29: in an auction in which the current bid never falls and every bid
\* of the agent becomes the current bid, each bid of the agent is above
\* the current bid it was asked at, hence above its previous bid, and is
\* at most the clamped ceiling; once the agent has passed it passes at
\* every later current bid; and the agent passes after finitely many bids
\* (no more than the ceiling lies above the current bid), whether the
\* others raise or not.
C29_AuctionTerminates ==
  op = "get_auction_bid" =>
    LET max_bid == AucCeiling
    IN  /\ ret # 0 => args.current_bid < ret /\ ret <= max_bid
        /\ \A later \in LaterBids :
             LET our_bid == AuctionBidAt(later)
             IN  /\ our_bid = next_bid(max_bid, later)
                 /\ our_bid # 0 =>
                      later < our_bid /\ ret < our_bid /\ our_bid <= max_bid
                 /\ ret = 0 => our_bid = 0
        /\ \A raise \in Raises :
             PassesWithin(max_bid, args.current_bid,
                          IF max_bid > args.current_bid
                          THEN max_bid - args.current_bid ELSE 0,
                          raise)

\* The agent bids, bids again over its own bid when nobody raises, places
\* more than ten bids in all, and passes once the others have raised to
\* its ceiling, which lies below MaxAuctionBid.
C29_Witness ==
  /\ op = "get_auction_bid"
  /\ ret # 0
  /\ AuctionBidAt(ret) > ret
  /\ BidsPlaced(AucCeiling, args.current_bid, MaxAuctionBid) > 10
  /\ AucCeiling < MaxAuctionBid
  /\ AuctionBidAt(AucCeiling) = 0

(***************************************************************************)
(* Sequences of builds (SpecBuilding)                                      *)
(***************************************************************************)

SeqPlayer == snapshot.my_state

\* The house count of a position of the building player.
SeqCount(pos) == Get(SeqPlayer.houses, pos, 0)

\* The positions of the group of pos.
SeqGroup(pos) ==
  {q \in DOMAIN POSITION_TO_GROUP :
     POSITION_TO_GROUP[q] = POSITION_TO_GROUP[pos]}

\* C30: from a snapshot whose counts inside a fully held colour group are
\* within 1 of each other and at most 4, builds placed where
\* should_build_house is true keep the counts of each such group within 1
\* of each other and at most 4, and each build leaves at least
\* reserve + 50 in cash.
C30_EvenBuilding ==
  /\ [](\A p \in FullyHeld(SeqPlayer.properties) :
          /\ SeqCount(p) <= 4
          /\ \A q \in SeqGroup(p) : SeqCount(p) - SeqCount(q) <= 1)
  /\ [][snapshot'.my_state.cash >= 75 + 50]_vars

\* Brown built up to four houses each, the last build leaving exactly
\* reserve + 50.
C30_Witness ==
  /\ SeqPlayer.cash = 75 + 50
  /\ SeqCount(1) = 4
  /\ SeqCount(3) = 4

====
